---- MODULE Spec2Model ----
(***************************************************************************)
(* Model of the ralph-todos task queue (scripts/todo-utils.ts), the git    *)
(* worktree manager (scripts/worktree-utils.ts) and the parallel           *)
(* orchestrator protocol (skills/ralph-todos-parallel/SKILL.md, kept in    *)
(* src/unnamed/part_000).                                                  *)
(***************************************************************************)
EXTENDS Integers, Sequences, FiniteSets, TLC

VARIABLES
    dir,        \* todos/ directory: filename -> parsed front matter
    cli,        \* per CLI process of todo-utils.ts: the command in flight
    last,       \* the most recent todo-utils.ts step and what it printed
    wts,        \* git's registered worktrees under .worktrees/
    wtDirs,     \* names of the directories that exist under .worktrees/
    branches,   \* local branches of the repository
    mainRef,    \* the commit local main points at
    wcli,       \* per caller of worktree-utils.ts: the command in flight
    wlast,      \* the most recent worktree-utils.ts step and its result
    linear,     \* Linear: the state of every issue
    notes,      \* Linear: the comments on every issue
    orch,       \* per orchestrator run: its place in the batch loop
    flow        \* the sequential loop or a worker: its place in the workflow

storeVars == <<dir, cli, last>>

gitVars == <<wts, wtDirs, branches, mainRef>>

wtVars == <<wts, wtDirs, branches, mainRef, wcli, wlast>>

linearVars == <<linear, notes, orch>>

(***************************************************************************)
(* Bounds of the model                                                     *)
(***************************************************************************)
\* getNextNumber is not run once it would hand out more than this number
MaxNumber == 2

\* the specification of names creates no file once the directory has
\* this many
MaxFiles == 2

Procs == {"p1", "p2"}

Priorities == {"p1", "p2", "p3"}

\* linear_cycle values written by the sync phase; NoCycle is an absent key
NoCycle == "none"
Cycles == {NoCycle, "Current Sprint", "Cycle 7"}

(***************************************************************************)
(* Strings of the source are tuples of one-character strings               *)
(***************************************************************************)
RECURSIVE Digits(_)
\* String(n) for n >= 0
Digits(n) == IF n < 10 THEN <<n>> ELSE Append(Digits(n \div 10), n % 10)

\* s.padStart(3, "0")
PadStart3(s) == IF Len(s) >= 3 THEN s
                ELSE [i \in 1..(3 - Len(s)) |-> 0] \o s

RECURSIVE ParseInt(_)
\* parseInt(s) of a digit string; parseInt("") is NaN, which every
\* comparison below treats as "not greater"; it is modelled as -1
ParseInt(s) == IF Len(s) = 0 THEN -1
               ELSE IF Len(s) = 1 THEN s[1]
               ELSE 10 * ParseInt(SubSeq(s, 1, Len(s) - 1)) + s[Len(s)]

IsAlnum(c) == c \in {"a", "b", "c", "0", "1"}
ToLower(c) == CASE c = "A" -> "a" [] c = "B" -> "b" [] c = "C" -> "c" [] OTHER -> c

RECURSIVE CollapseNonAlnum(_)
\* .replace(/[^a-z0-9]+/g, "-") on a lower-cased string
CollapseNonAlnum(s) ==
    IF Len(s) = 0 THEN <<>>
    ELSE IF IsAlnum(s[1]) THEN <<s[1]>> \o CollapseNonAlnum(Tail(s))
    ELSE IF Len(s) > 1 /\ ~IsAlnum(s[2]) THEN CollapseNonAlnum(Tail(s))
    ELSE <<"-">> \o CollapseNonAlnum(Tail(s))

\* .replace(/^-|-$/g, "")
TrimDashes(s) ==
    LET a == IF Len(s) > 0 /\ s[1] = "-" THEN Tail(s) ELSE s
    IN  IF Len(a) > 0 /\ a[Len(a)] = "-" THEN SubSeq(a, 1, Len(a) - 1) ELSE a

SlugMaxLen == 50

\* createTodo's slug: lower-case, collapse, trim, slice(0, 50)
Slugify(title) ==
    LET low == [i \in 1..Len(title) |-> ToLower(title[i])]
        t   == TrimDashes(CollapseNonAlnum(low))
    IN  SubSeq(t, 1, IF Len(t) < SlugMaxLen THEN Len(t) ELSE SlugMaxLen)

(***************************************************************************)
(* File names and front matter                                             *)
(***************************************************************************)
\* buildFilename: `${number}-${status}-${priority}-${slug}.md`
buildFilename(number, status, priority, slug) ==
    [number |-> number, status |-> status, priority |-> priority, slug |-> slug]

\* the characters of a name: `${number}-${status}-${priority}-${slug}.md`
DigitChars == <<"0", "1", "2", "3", "4", "5", "6", "7", "8", "9">>

StatusText(status) ==
    CASE status = "pending"   -> <<"p", "e", "n", "d", "i", "n", "g">>
      [] status = "completed" -> <<"c", "o", "m", "p", "l", "e", "t", "e", "d">>
      [] status = "blocked"   -> <<"b", "l", "o", "c", "k", "e", "d">>
      [] OTHER                -> <<"u", "n", "k", "n", "o", "w", "n">>

PriorityText(priority) ==
    CASE priority = "p1" -> <<"p", "1">>
      [] priority = "p2" -> <<"p", "2">>
      [] priority = "p3" -> <<"p", "3">>

FilenameText(filename) ==
    [k \in 1..Len(filename.number) |-> DigitChars[filename.number[k] + 1]]
        \o <<"-">> \o StatusText(filename.status)
        \o <<"-">> \o PriorityText(filename.priority) \o <<"-">>
        \o filename.slug \o <<".", "m", "d">>

\* /^(\d+)-(\w+)-(p[123])-(.+)\.md$/ on a name buildFilename made: the
\* number is digits, the status a word and the priority p1..p3, so the
\* name matches exactly when (.+) has a character to take
MatchesFilename(filename) == Len(filename.slug) > 0

\* parseFilename: the groups of the match, and without a match number
\* "000", status "unknown", priority "p3" and the whole name as the slug
parseFilename(filename) ==
    IF MatchesFilename(filename)
    THEN [number |-> filename.number, status |-> filename.status,
          priority |-> filename.priority, slug |-> filename.slug]
    ELSE [number |-> <<0, 0, 0>>, status |-> "unknown", priority |-> "p3",
          slug |-> FilenameText(filename)]

\* fs.writeFile: creates the file or replaces its content
writeFile(d, filename, content) ==
    [f \in DOMAIN d \cup {filename} |-> IF f = filename THEN content ELSE d[f]]

\* fs.unlink of an existing file
unlink(d, filename) == [f \in DOMAIN d \ {filename} |-> d[f]]

\* fs.rename of an existing file: replaces a file already at newname
rename(d, filename, newname) ==
    [f \in (DOMAIN d \ {filename}) \cup {newname} |->
        IF f = newname THEN d[filename] ELSE d[f]]

EmptyDir == [f \in {} |-> 0]

(***************************************************************************)
(* listTodos and getNextTodo                                               *)
(***************************************************************************)
\* an absent string key of the front matter (issue_id, a blank dependency)
Blank == <<>>

\* an absent linear_issue key
NoIssue == "none"

NoFilter == "any"

\* readdir: the directory's names in an order the file system chooses
ReadDirOrders(d) ==
    LET n == Cardinality(DOMAIN d)
    IN  {o \in [1..n -> DOMAIN d] : \A i, j \in 1..n : o[i] = o[j] => i = j}

priorityOrder(p) == CASE p = "p1" -> 1 [] p = "p2" -> 2 [] p = "p3" -> 3

\* cycle.toLowerCase().includes("current"), on the cycle names of the model
IncludesCurrent(cycle) == cycle \in {"Current Sprint"}

cycleOrder(cycle) ==
    IF cycle = NoCycle THEN 3
    ELSE IF IncludesCurrent(cycle) THEN 1
    ELSE 2

\* the comparator handed to todos.sort: negative, zero or positive
CompareTodos(a, b) ==
    LET cycleDiff == cycleOrder(a.frontmatter.cycle) - cycleOrder(b.frontmatter.cycle)
        priorityDiff == priorityOrder(a.frontmatter.priority)
                        - priorityOrder(b.frontmatter.priority)
    IN  IF cycleDiff # 0 THEN cycleDiff
        ELSE IF priorityDiff # 0 THEN priorityDiff
        ELSE ParseInt(a.number) - ParseInt(b.number)

\* one insertion of a stable sort: x goes before the first element that
\* compares greater than x, so equal elements keep their relative order
InsertStable(sorted, x) ==
    LET after == {i \in 1..Len(sorted) : CompareTodos(sorted[i], x) > 0}
        k == IF after = {} THEN Len(sorted) + 1
             ELSE CHOOSE i \in after : \A j \in after : i <= j
    IN  SubSeq(sorted, 1, k - 1) \o <<x>> \o SubSeq(sorted, k, Len(sorted))

RECURSIVE StableSort(_)
\* Array.prototype.sort with CompareTodos (the sort is stable)
StableSort(todos) ==
    IF Len(todos) = 0 THEN <<>>
    ELSE InsertStable(StableSort(SubSeq(todos, 1, Len(todos) - 1)), todos[Len(todos)])

\* the content of a file that does not start with a --- block
NoFrontmatter == [raw |-> TRUE]

\* parseFrontmatter: the keys of the --- block, or the default front matter
\* when the content does not match
parseFrontmatter(content) ==
    IF content = NoFrontmatter
    THEN [status |-> "pending", priority |-> "p3", issue_id |-> Blank,
          cycle |-> NoCycle, deps |-> {}, linear_issue |-> NoIssue]
    ELSE content

\* the Todo pushed for one file
TodoOf(d, filename) ==
    [filename |-> filename, frontmatter |-> parseFrontmatter(d[filename]),
     number |-> parseFilename(filename).number, slug |-> parseFilename(filename).slug]

\* listTodos(statusFilter) when readdir returns the names in `order`
listTodos(d, order, statusFilter) ==
    LET kept == SelectSeq(order,
                    LAMBDA f : \/ statusFilter = NoFilter
                               \/ parseFrontmatter(d[f]).status = statusFilter)
    IN  StableSort([i \in 1..Len(kept) |-> TodoOf(d, kept[i])])

\* a completedIds that takes the id of every todo, whatever its status
completedIdsAnyStatus(d, order) ==
    {d[f].issue_id : f \in DOMAIN d} \ {Blank}

\* getNextTodo's completedIds: issue_id of the completed todos, blanks dropped
completedIds(d, order) ==
    LET done == listTodos(d, order, "completed")
    IN  {done[i].frontmatter.issue_id : i \in 1..Len(done)} \ {Blank}

\* an unmetDeps that finds every dependency met
unmetDepsNone(todo, completed) == {}

\* getNextTodo's unmetDeps of one todo
unmetDeps(todo, completed) ==
    LET deps == {x \in todo.frontmatter.deps : x # Blank}
    IN  {dep \in deps : dep \notin completed}

NoTodo == [none |-> TRUE]

RECURSIVE FirstReady(_, _)
\* the for loop of getNextTodo
FirstReady(todos, completed) ==
    IF Len(todos) = 0 THEN NoTodo
    ELSE IF unmetDeps(todos[1], completed) = {} THEN todos[1]
    ELSE FirstReady(Tail(todos), completed)

\* getNextTodo, its two listTodos calls reading the directory in order1, order2
getNextTodo(d, order1, order2) ==
    FirstReady(listTodos(d, order1, "pending"), completedIds(d, order2))

\* getNextNumber
getNextNumber(d) ==
    LET nums == {ParseInt(parseFilename(f).number) : f \in DOMAIN d}
        maxNumber == IF \E n \in nums : n > 0
                     THEN CHOOSE n \in nums : \A m \in nums : m <= n
                     ELSE 0
    IN  PadStart3(Digits(maxNumber + 1))


(***************************************************************************)
(* todo-utils.ts commands. A command that writes is one step per await,    *)
(* so two CLI processes interleave between its file system calls; "list"   *)
(* and "next" only read and are one step each.                             *)
(***************************************************************************)
Idle == [op |-> "idle"]

\* `last` after a step that prints nothing
Quiet == [op |-> "quiet"]

\* the content createTodo builds: its front matter, which has no
\* linear_cycle key, and the `# ${options.title}` heading of the body
NewFrontmatter(number, options) ==
    [status |-> "pending", priority |-> options.priority, issue_id |-> number,
     cycle |-> NoCycle, deps |-> options.dependencies,
     linear_issue |-> options.linearIssue, title |-> options.title]

\* createTodo up to its first await: const number = await getNextNumber()
CreateNumber(p) ==
    /\ cli[p] = Idle
    /\ ParseInt(getNextNumber(dir)) <= MaxNumber
    /\ cli' = [cli EXCEPT ![p] = [op |-> "create", number |-> getNextNumber(dir)]]
    /\ last' = Quiet
    /\ UNCHANGED dir

\* createTodo from there: slug, filename, front matter, writeFile, output.
\* `options` is the argument of the call; nothing reads it before this step.
CreateWrite(p, options) ==
    /\ cli[p].op = "create"
    /\ LET number == cli[p].number
           filename == buildFilename(number, "pending", options.priority,
                                     Slugify(options.title))
       IN  /\ dir' = writeFile(dir, filename, NewFrontmatter(number, options))
           /\ last' = [op |-> "create", success |-> TRUE, filename |-> filename,
                       number |-> number, options |-> options,
                       before |-> DOMAIN dir]
    /\ cli' = [cli EXCEPT ![p] = Idle]

\* completeTodo up to writeFile: readFile, parse, the new front matter
CompleteRead(p, filename) ==
    /\ cli[p] = Idle
    /\ filename \in DOMAIN dir
    /\ cli' = [cli EXCEPT ![p] =
                 [op |-> "complete", stage |-> "write", filename |-> filename,
                  frontmatter |-> [parseFrontmatter(dir[filename])
                                       EXCEPT !.status = "completed"]]]
    /\ last' = Quiet
    /\ UNCHANGED dir

\* blockTodo up to writeFile
BlockRead(p, filename) ==
    /\ cli[p] = Idle
    /\ filename \in DOMAIN dir
    /\ cli' = [cli EXCEPT ![p] =
                 [op |-> "block", stage |-> "write", filename |-> filename,
                  frontmatter |-> [parseFrontmatter(dir[filename])
                                       EXCEPT !.status = "blocked"]]]
    /\ last' = Quiet
    /\ UNCHANGED dir

\* await writeFile(filepath, newContent) of completeTodo and of blockTodo
TransitionWrite(p) ==
    /\ cli[p].op \in {"complete", "block"}
    /\ cli[p].stage = "write"
    /\ dir' = writeFile(dir, cli[p].filename, cli[p].frontmatter)
    /\ cli' = [cli EXCEPT ![p].stage = "rename"]
    /\ last' = Quiet

\* if (filename !== newFilename) await rename(filepath, newFilepath), and the
\* output; rename of a name that is gone rejects and the process exits 1
TransitionRename(p) ==
    /\ cli[p].op \in {"complete", "block"}
    /\ cli[p].stage = "rename"
    /\ LET filename == cli[p].filename
           parts == parseFilename(filename)
           status == IF cli[p].op = "complete" THEN "completed" ELSE "blocked"
           newFilename == buildFilename(parts.number, status, parts.priority, parts.slug)
       IN  IF filename = newFilename
           THEN /\ dir' = dir
                /\ last' = [op |-> cli[p].op, success |-> TRUE,
                            newFilename |-> newFilename]
           ELSE IF filename \in DOMAIN dir
           THEN /\ dir' = rename(dir, filename, newFilename)
                /\ last' = [op |-> cli[p].op, success |-> TRUE,
                            newFilename |-> newFilename]
           ELSE /\ dir' = dir
                /\ last' = [op |-> cli[p].op, success |-> FALSE,
                            newFilename |-> newFilename]
    /\ cli' = [cli EXCEPT ![p] = Idle]

\* deleteTodo of a file that is there (unlink of a missing one prints
\* success:false and exits 1, changing nothing)
DeleteTodo(p, filename) ==
    /\ cli[p] = Idle
    /\ filename \in DOMAIN dir
    /\ dir' = unlink(dir, filename)
    /\ last' = [op |-> "delete", success |-> TRUE, deleted |-> filename]
    /\ UNCHANGED cli

\* an absent new-title argument; if (newTitle) takes "" for absent too
NoTitle == <<>>

\* updateFromLinear: linear_issue is written into the front matter and
\* the heading of the body is replaced when a new title is given
updateFromLinear(d, filename, linearIssue, newTitle) ==
    writeFile(d, filename,
        [parseFrontmatter(d[filename]) EXCEPT
            !.linear_issue = linearIssue,
            !.title = IF newTitle = NoTitle THEN @ ELSE newTitle])

\* the "update-from-linear" command: readFile, the new content, writeFile
UpdateFromLinear(p, filename, linearIssue, newTitle) ==
    /\ cli[p] = Idle
    /\ filename \in DOMAIN dir
    /\ dir' = updateFromLinear(dir, filename, linearIssue, newTitle)
    /\ last' = [op |-> "update-from-linear", success |-> TRUE,
                filename |-> filename, linear_issue |-> linearIssue,
                title_updated |-> newTitle # NoTitle]
    /\ UNCHANGED cli

\* the linear_cycle key of a todo is edited; todo-utils.ts only reads it,
\* the agent that syncs from Linear writes it into the file
SyncCycle(filename, cycle) ==
    /\ filename \in DOMAIN dir
    /\ dir[filename].cycle # cycle
    /\ dir' = [dir EXCEPT ![filename].cycle = cycle]
    /\ last' = Quiet
    /\ UNCHANGED cli

\* somebody saves a todo file without its --- block
RawEdit(filename) ==
    /\ filename \in DOMAIN dir
    /\ dir[filename] # NoFrontmatter
    /\ dir' = writeFile(dir, filename, NoFrontmatter)
    /\ last' = Quiet
    /\ UNCHANGED cli

\* the "list" command when readdir returns the names in `order`
ListCommand(p, statusFilter, order) ==
    /\ cli[p] = Idle
    /\ last' = [op |-> "list", statusFilter |-> statusFilter,
                todos |-> listTodos(dir, order, statusFilter)]
    /\ UNCHANGED <<dir, cli>>

\* what the "next" command prints when getNextTodo returns null
NoneMessage == "No pending todos with met dependencies"

\* the "next" command; completedIds is a set, so the order of the second
\* readdir does not show in the result and `order` stands for both
NextCommand(p, order) ==
    /\ cli[p] = Idle
    /\ LET todo == getNextTodo(dir, order, order)
       IN  last' = [op |-> "next", todo |-> todo,
                    message |-> IF todo = NoTodo THEN NoneMessage ELSE ""]
    /\ UNCHANGED <<dir, cli>>

(***************************************************************************)
(* git, as worktree-utils.ts drives it. A worktree is registered under its *)
(* path .worktrees/<name>; `by` records the caller whose command made it.  *)
(***************************************************************************)
\* a branch name is its prefix and the rest; main has no prefix
Trunk == [prefix |-> "", slug |-> <<"m", "a", "i", "n">>]

\* listWorktrees(true): the registered worktrees
listWorktrees == wts

\* git fetch origin main:main || true: local main moves to origin's main
\* when the fetch goes through (`fetched`) and stays where it is otherwise
GitFetchMain(ref, fetched) == IF fetched THEN "origin/main" ELSE ref

\* git worktree add -B: an existing branch is reset instead of refused
GitWorktreeAddResetBranch(name, branch) ==
    /\ name \notin wtDirs
    /\ \A w \in wts : w.name # name

\* git worktree add --force: a registered or existing path is taken over
GitWorktreeAddForce(name, branch) == branch \notin branches

\* git worktree add "<path>" -b "<branch>" main succeeds only when the
\* branch is new and the path is neither registered nor on disk
GitWorktreeAddOk(name, branch) ==
    /\ branch \notin branches
    /\ name \notin wtDirs
    /\ \A w \in wts : w.name # name

\* git worktree remove "<path>" --force works on a registered path, clean
\* or dirty, on disk or missing
GitWorktreeRemoveOk(name) == \E w \in wts : w.name = name

\* a git worktree prune that forgets nothing
GitWorktreePruneNothing(registered, onDisk) == registered

\* git worktree prune: forget the registrations whose directory is gone
GitWorktreePrune(registered, onDisk) == {w \in registered : w.name \in onDisk}

\* git branch -D "<branch>" || true: a branch checked out in a worktree stays
GitBranchDelete(all, registered, branch) ==
    IF \E w \in registered : w.branch = branch THEN all ELSE all \ {branch}

WIdle == [op |-> "idle"]

\* createWorktree up to git worktree add: listWorktrees and the name check
CreateWorktreeCheck(c, name, branch) ==
    /\ wcli[c] = WIdle
    /\ IF \E w \in listWorktrees : w.name = name
       THEN /\ wcli' = wcli
            /\ wlast' = [op |-> "create", by |-> c, name |-> name, branch |-> branch,
                         success |-> FALSE, error |-> "already exists"]
       ELSE /\ wcli' = [wcli EXCEPT ![c] = [op |-> "create", stage |-> "add",
                                            name |-> name, branch |-> branch]]
            /\ wlast' = [op |-> "quiet"]
    /\ UNCHANGED gitVars

\* git fetch origin main:main || true, then git worktree add; a failing
\* git throws into the catch, which returns success:false
CreateWorktreeAdd(c, fetched) ==
    /\ wcli[c].op = "create"
    /\ wcli[c].stage = "add"
    /\ mainRef' = GitFetchMain(mainRef, fetched)
    /\ LET name == wcli[c].name
           branch == wcli[c].branch
       IN  IF GitWorktreeAddOk(name, branch)
           THEN /\ wts' = wts \cup {[name |-> name, branch |-> branch, by |-> c]}
                /\ wtDirs' = wtDirs \cup {name}
                /\ branches' = branches \cup {branch}
                /\ wcli' = [wcli EXCEPT ![c].stage = "install"]
                /\ wlast' = [op |-> "quiet"]
           ELSE /\ UNCHANGED <<wts, wtDirs, branches>>
                /\ wcli' = [wcli EXCEPT ![c] = WIdle]
                /\ wlast' = [op |-> "create", by |-> c, name |-> name,
                             branch |-> branch, success |-> FALSE,
                             error |-> "Failed to create worktree",
                             message |-> "Command failed: git worktree add"]

\* bun install in the worktree; `ok` is whether it exits 0. It cannot run
\* in a directory that is gone. Its failure throws into the same catch.
CreateWorktreeInstall(c, ok) ==
    /\ wcli[c].op = "create"
    /\ wcli[c].stage = "install"
    /\ wlast' = IF ok /\ wcli[c].name \in wtDirs
                 THEN [op |-> "create", by |-> c, name |-> wcli[c].name,
                       branch |-> wcli[c].branch, success |-> TRUE,
                       error |-> "", path |-> wcli[c].name]
                 ELSE [op |-> "create", by |-> c, name |-> wcli[c].name,
                       branch |-> wcli[c].branch, success |-> FALSE,
                       error |-> "Failed to create worktree",
                       message |-> "Command failed: bun install"]
    /\ wcli' = [wcli EXCEPT ![c] = WIdle]
    /\ UNCHANGED gitVars

\* deleteWorktree up to git worktree remove: listWorktrees and the lookup
DeleteWorktreeCheck(c, name) ==
    /\ wcli[c] = WIdle
    /\ IF \E w \in listWorktrees : w.name = name
       THEN \E w \in listWorktrees :
                /\ w.name = name
                /\ wcli' = [wcli EXCEPT ![c] = [op |-> "delete", stage |-> "remove",
                                                name |-> name, branch |-> w.branch]]
                /\ wlast' = [op |-> "quiet"]
       ELSE /\ wcli' = wcli
            /\ wlast' = [op |-> "delete", by |-> c, name |-> name,
                         success |-> FALSE, manualCleanup |-> FALSE]
    /\ UNCHANGED gitVars

\* git worktree remove "<path>" --force; `ok` is whether git manages to
\* (it cannot on an unregistered path). A failure enters the outer catch.
DeleteWorktreeRemove(c, ok) ==
    /\ wcli[c].op = "delete"
    /\ wcli[c].stage = "remove"
    /\ IF ok /\ GitWorktreeRemoveOk(wcli[c].name)
       THEN /\ wts' = {w \in wts : w.name # wcli[c].name}
            /\ wtDirs' = wtDirs \ {wcli[c].name}
            /\ wcli' = [wcli EXCEPT ![c].stage = "prune"]
       ELSE /\ UNCHANGED <<wts, wtDirs>>
            /\ wcli' = [wcli EXCEPT ![c].stage = "rm"]
    /\ wlast' = [op |-> "quiet"]
    /\ UNCHANGED <<branches, mainRef>>

\* git worktree prune, then git branch -D "<branch>" || true, and success
DeleteWorktreePrune(c) ==
    /\ wcli[c].op = "delete"
    /\ wcli[c].stage = "prune"
    /\ wts' = GitWorktreePrune(wts, wtDirs)
    /\ branches' = GitBranchDelete(branches, GitWorktreePrune(wts, wtDirs),
                                   wcli[c].branch)
    /\ wcli' = [wcli EXCEPT ![c] = WIdle]
    /\ wlast' = [op |-> "delete", by |-> c, name |-> wcli[c].name,
                 success |-> TRUE, manualCleanup |-> FALSE]
    /\ UNCHANGED <<wtDirs, mainRef>>

\* the catch: rm(worktreePath, {recursive, force}), git worktree prune, and
\* success with manualCleanup; `ok` is whether both manage to
DeleteWorktreeManual(c, ok) ==
    /\ wcli[c].op = "delete"
    /\ wcli[c].stage = "rm"
    /\ IF ok
       THEN /\ wtDirs' = wtDirs \ {wcli[c].name}
            /\ wts' = GitWorktreePrune(wts, wtDirs \ {wcli[c].name})
       ELSE UNCHANGED <<wts, wtDirs>>
    /\ wcli' = [wcli EXCEPT ![c] = WIdle]
    /\ wlast' = [op |-> "delete", by |-> c, name |-> wcli[c].name,
                 success |-> ok, manualCleanup |-> ok]
    /\ UNCHANGED <<branches, mainRef>>

\* worktreeExists(name): access(worktreePath) goes through
worktreeExists(onDisk, name) == name \in onDisk

\* the "exists" command
ExistsCommand(c, name) ==
    /\ wcli[c] = WIdle
    /\ wlast' = [op |-> "exists", by |-> c, name |-> name,
                 exists |-> worktreeExists(wtDirs, name)]
    /\ UNCHANGED <<gitVars, wcli>>

(***************************************************************************)
(* createWorktree and deleteWorktree as one call each, as the orchestrator *)
(* invokes them between two of its own steps. `git` is the record of the   *)
(* registered worktrees, the directories and the branches.                 *)
(***************************************************************************)
GitState ==
    [wts |-> wts, wtDirs |-> wtDirs, branches |-> branches, main |-> mainRef]

\* a createWorktree that reports success whatever git holds
createWorktreeAlways(git, name, branch, by, fetched, installOk) ==
    [success |-> TRUE, git |-> git]

\* createWorktree(name, branch): the result and the git state after it
createWorktree(git, name, branch, by, fetched, installOk) ==
    IF \E w \in git.wts : w.name = name
    THEN [success |-> FALSE, git |-> git]
    ELSE IF /\ branch \notin git.branches
            /\ name \notin git.wtDirs
         THEN [success |-> installOk,
               git |-> [wts |-> git.wts \cup {[name |-> name, branch |-> branch,
                                               by |-> by]},
                        wtDirs |-> git.wtDirs \cup {name},
                        branches |-> git.branches \cup {branch},
                        main |-> GitFetchMain(git.main, fetched)]]
         ELSE [success |-> FALSE,
               git |-> [git EXCEPT !.main = GitFetchMain(git.main, fetched)]]

\* deleteWorktree(name): the result and the git state after it
deleteWorktree(git, name, removeOk, rmOk) ==
    IF ~ \E w \in git.wts : w.name = name
    THEN [success |-> FALSE, git |-> git]
    ELSE LET wt == CHOOSE w \in git.wts : w.name = name
         IN  IF removeOk
             THEN LET registered == GitWorktreePrune(git.wts \ {wt},
                                                     git.wtDirs \ {name})
                  IN  [success |-> TRUE,
                       git |-> [wts |-> registered,
                                wtDirs |-> git.wtDirs \ {name},
                                branches |-> GitBranchDelete(git.branches,
                                                registered, wt.branch),
                                main |-> git.main]]
             ELSE IF rmOk
                  THEN [success |-> TRUE,
                        git |-> [wts |-> GitWorktreePrune(git.wts,
                                                git.wtDirs \ {name}),
                                 wtDirs |-> git.wtDirs \ {name},
                                 branches |-> git.branches,
                                 main |-> git.main]]
                  ELSE [success |-> FALSE, git |-> git]

\* name.startsWith("ralph-")
isRalph(name) == name.prefix = "ralph"

RECURSIVE cleanupWorktrees(_, _, _, _)
\* cleanupWorktrees: deleteWorktree of every worktree in `names`, the
\* ralph-* names listWorktrees() returned, whatever their Linear issue;
\* removeOk and rmOk say for each name what git and rm manage to do
cleanupWorktrees(git, names, removeOk, rmOk) ==
    IF names = {}
    THEN [git |-> git, cleaned |-> {}, kept |-> {}, errors |-> {}]
    ELSE LET name == CHOOSE n \in names : TRUE
             result == deleteWorktree(git, name, removeOk[name], rmOk[name])
             rest == cleanupWorktrees(result.git, names \ {name}, removeOk, rmOk)
         IN  [git |-> rest.git,
              cleaned |-> rest.cleaned \cup (IF result.success THEN {name} ELSE {}),
              kept |-> {},
              errors |-> rest.errors \cup (IF result.success THEN {} ELSE {name})]

\* the "cleanup" command
CleanupCommand(removeOk, rmOk) ==
    LET names == {w.name : w \in {x \in listWorktrees : isRalph(x.name)}}
        result == cleanupWorktrees(GitState, names, removeOk, rmOk)
    IN  /\ wts' = result.git.wts
        /\ wtDirs' = result.git.wtDirs
        /\ branches' = result.git.branches
        /\ wlast' = [op |-> "cleanup", success |-> result.errors = {},
                     cleaned |-> result.cleaned, kept |-> result.kept,
                     errors |-> result.errors]
        /\ UNCHANGED <<mainRef, wcli>>

(***************************************************************************)
(* The parallel orchestrator: Linear as the lock, batches of workers       *)
(***************************************************************************)
Orchs == {"o1", "o2"}

Issues == {"HOL-1", "HOL-2"}

\* --workers N
Workers == 2

LinearStates == {"Backlog", "Todo", "In Progress", "Blocked", "Done", "Cancelled"}

\* a 4a that takes an issue in progress as well
ClaimableOrInProgress == {"Todo", "Backlog", "In Progress"}

\* 4a: if issue.state.name in ["Todo", "Backlog"]
Claimable == {"Todo", "Backlog"}

\* 4b: "ralph-[linearIssue]" and "feature/[slug]"
WorktreeName(issue) == [prefix |-> "ralph", issue |-> issue]

FeatureBranch(slug) == [prefix |-> "feature", slug |-> slug]

\* 4d: the worker's result, status and merged together
Outcomes == {"merged", "open", "blocked", "failed"}

ClaimNote(o) == [by |-> o, body |-> "Claimed by parallel worker for processing."]

DoneNote(o) == [by |-> o, body |-> "Completed by Claude parallel worker."]

\* 4e: Update Linear to "Blocked" with reason
BlockedNote(o) == [by |-> o, body |-> "Blocked: reason"]

\* a 4e that removes the worktree of every completed todo, merged or not
RemovesWorktreeOnCompleted(status) == status \in {"merged", "open"}

\* 4e, last column: the worktree is removed for completed + merged only
RemovesWorktree(status) == status = "merged"

\* 4e: the local todo is deleted for completed + merged only
DeletesTodo(status) == status = "merged"

\* a 4e that writes no Linear state for any result
LinearAfterKept(status, state) == state

\* 4e: the Linear state written for a result; none for completed + not merged
LinearAfter(status, state) ==
    CASE status = "merged" -> "Done"
      [] status = "blocked" -> "Blocked"
      [] status = "failed" -> "Todo"
      [] OTHER -> state

\* 4e: the comment that goes with the state
NotesAfter(status, o, comments) ==
    CASE status = "merged" -> comments \cup {DoneNote(o)}
      [] status = "blocked" -> comments \cup {BlockedNote(o)}
      [] OTHER -> comments

\* Phase 2: the pending files by name, those with linear_issue, sorted
BuildWorkQueue(d, order) ==
    LET todos == [i \in 1..Len(order) |-> TodoOf(d, order[i])]
        inQueue(t) == /\ t.filename.status = "pending"
                      /\ t.frontmatter.linear_issue # NoIssue
        sorted == StableSort(SelectSeq(todos, inQueue))
    IN  [i \in 1..Len(sorted) |->
            [issue |-> sorted[i].frontmatter.linear_issue,
             filename |-> sorted[i].filename]]

\* a 4a that keeps a skipped todo in the batch
ClaimedTodosAll(claimed, todo, state) == Append(claimed, todo)

\* 4a: the todos of the batch after one more todo was looked at
ClaimedTodos(claimed, todo, state) ==
    IF state \in Claimable THEN Append(claimed, todo) ELSE claimed

\* --max-todos N: "default: unlimited"
Unlimited == 0

\* a 4a that leaves the todo it looked at on the queue
RemainingSame(queue) == queue

\* 4a goes down the queue: the todo looked at is off it, claimed or skipped
Remaining(queue) == Tail(queue)

\* a Phase 2 that leaves the queue as long as it is
ApplyNoLimit(queue, maxTodos) == queue

\* Phase 2 step 4: Apply --max-todos limit if set
ApplyMaxTodos(queue, maxTodos) ==
    IF maxTodos = Unlimited \/ Len(queue) <= maxTodos THEN queue
    ELSE SubSeq(queue, 1, maxTodos)

OrchStart ==
    [pc |-> "build", queue |-> <<>>, seen |-> "", claimed |-> <<>>,
     ready |-> {}, running |-> {}, started |-> {}, results |-> <<>>, done |-> 0,
     holding |-> {}, skipped |-> {}, provisioned |-> {}, dispatched |-> {},
     report |-> {}, workers |-> Workers, maxTodos |-> Unlimited]

BuildQueue(o, order) ==
    /\ orch[o].pc = "build"
    /\ orch' = [orch EXCEPT ![o].pc = "claim",
                            ![o].queue = ApplyMaxTodos(BuildWorkQueue(dir, order),
                                                       orch[o].maxTodos)]
    /\ UNCHANGED <<linear, notes, dir, gitVars>>

\* --workers N: "max: 5"
MaxWorkers == 5

\* a 4a that goes on claiming whatever the batch holds
BatchNeverFull(claimed, workers) == FALSE

\* "For each batch of N todos (where N = --workers)"
BatchFull(claimed, workers) == Len(claimed) >= workers

\* mcp__linear__get_issue
ClaimGet(o) ==
    /\ orch[o].pc = "claim"
    /\ orch[o].queue # <<>>
    /\ ~ BatchFull(orch[o].claimed, orch[o].workers)
    /\ orch' = [orch EXCEPT ![o].pc = "decide",
                            ![o].seen = linear[Head(orch[o].queue).issue]]
    /\ UNCHANGED <<linear, notes, dir, gitVars>>

\* the if of 4a: update_issue and create_comment, or skip and go on to the
\* next todo of the queue
ClaimDecide(o) ==
    /\ orch[o].pc = "decide"
    /\ LET todo == Head(orch[o].queue)
           i == todo.issue
       IN  /\ IF orch[o].seen \in Claimable
              THEN /\ linear' = [linear EXCEPT ![i] = "In Progress"]
                   /\ notes' = [notes EXCEPT ![i] = @ \cup {ClaimNote(o)}]
              ELSE UNCHANGED <<linear, notes>>
           /\ orch' = [orch EXCEPT
                  ![o].pc = "claim",
                  ![o].seen = "",
                  ![o].queue = Remaining(@),
                  ![o].claimed = ClaimedTodos(@, todo, orch[o].seen),
                  ![o].holding = IF orch[o].seen \in Claimable
                                 THEN @ \cup {i} ELSE @,
                  ![o].skipped = IF orch[o].seen \in Claimable
                                 THEN @ ELSE @ \cup {i}]
    /\ UNCHANGED <<dir, gitVars>>

\* the batch is full or the queue is used up
ClaimEnd(o) ==
    /\ orch[o].pc = "claim"
    /\ orch[o].queue = <<>> \/ BatchFull(orch[o].claimed, orch[o].workers)
    /\ orch' = [orch EXCEPT ![o].pc = IF orch[o].claimed = <<>>
                                      THEN "stopped" ELSE "provision"]
    /\ UNCHANGED <<linear, notes, dir, gitVars>>

\* a 4b that leaves the issue of a failed creation as it is
ReleasedNever(success, state) == state

\* "Worktree creation fails | Release Linear claim, skip todo"
Released(success, state) == IF success THEN state ELSE "Todo"

\* 4b for one claimed todo; a failure releases the Linear claim and skips
Provision(o, fetched, installOk) ==
    /\ orch[o].pc = "provision"
    /\ orch[o].claimed # <<>>
    /\ LET todo == Head(orch[o].claimed)
           i == todo.issue
           r == createWorktree(GitState, WorktreeName(i),
                               FeatureBranch(todo.filename.slug), o, fetched,
                               installOk)
       IN  /\ mainRef' = r.git.main
           /\ wts' = r.git.wts
           /\ wtDirs' = r.git.wtDirs
           /\ branches' = r.git.branches
           /\ linear' = [linear EXCEPT ![i] = Released(r.success, @)]
           /\ orch' = [orch EXCEPT
                  ![o].claimed = Tail(@),
                  ![o].provisioned = @ \cup {i},
                  ![o].ready = IF r.success THEN @ \cup {todo} ELSE @,
                  ![o].holding = IF r.success THEN @ ELSE @ \ {i}]
    /\ UNCHANGED <<notes, dir>>

\* 4c: every worker of the batch in one message
Dispatch(o) ==
    /\ orch[o].pc = "provision"
    /\ orch[o].claimed = <<>>
    /\ orch' = [orch EXCEPT
           ![o].pc = IF orch[o].ready = {} THEN "update" ELSE "collect",
           ![o].running = orch[o].ready,
           ![o].dispatched = @ \cup {t.issue : t \in orch[o].ready}]
    /\ UNCHANGED <<linear, notes, dir, gitVars>>

\* a Phase 1 that does not look at the state of the issue
ValidatedAnyState(state, exists) == exists

\* worker Phase 1: the worktree is there and the issue is "In Progress"
Validated(state, exists) == exists /\ state = "In Progress"

\* what an aborting worker returns
Aborted(todo) ==
    [todo |-> todo, status |-> "failed", timedOut |-> FALSE, error |-> "aborted"]

\* worker Phase 1 (Validate State): the worker goes on to Phase 2 and the
\* workflows, or aborts and returns
WorkerValidate(o, todo) ==
    /\ orch[o].pc = "collect"
    /\ todo \in orch[o].running \ orch[o].started
    /\ IF Validated(linear[todo.issue], WorktreeName(todo.issue) \in wtDirs)
       THEN orch' = [orch EXCEPT ![o].started = @ \cup {todo}]
       ELSE orch' = [orch EXCEPT
                ![o].running = @ \ {todo},
                ![o].results = Append(@, Aborted(todo)),
                ![o].pc = IF orch[o].running = {todo} THEN "update" ELSE "collect"]
    /\ UNCHANGED <<linear, notes, dir, gitVars>>

\* a worker that passed Phase 1 returns its result
WorkerReturn(o, todo, outcome) ==
    /\ orch[o].pc = "collect"
    /\ todo \in orch[o].started
    /\ orch' = [orch EXCEPT
           ![o].running = @ \ {todo},
           ![o].started = @ \ {todo},
           ![o].results = Append(@, [todo |-> todo, status |-> outcome,
                                     timedOut |-> FALSE, error |-> "none"]),
           ![o].pc = IF orch[o].running = {todo} THEN "update" ELSE "collect"]
    /\ UNCHANGED <<linear, notes, dir, gitVars>>

\* "Worker times out | Mark as failed, keep worktree"
TimedOut(todo) ==
    [todo |-> todo, status |-> "failed", timedOut |-> TRUE, error |-> "none"]

\* the orchestrator stops waiting for a worker that has not returned
WorkerTimeout(o, todo) ==
    /\ orch[o].pc = "collect"
    /\ todo \in orch[o].running
    /\ orch' = [orch EXCEPT
           ![o].running = @ \ {todo},
           ![o].started = @ \ {todo},
           ![o].results = Append(@, TimedOut(todo)),
           ![o].pc = IF orch[o].running = {todo} THEN "update" ELSE "collect"]
    /\ UNCHANGED <<linear, notes, dir, gitVars>>

\* 4e for the next result
UpdateState(o, removeOk, rmOk) ==
    /\ orch[o].pc = "update"
    /\ orch[o].done < Len(orch[o].results)
    /\ LET r == orch[o].results[orch[o].done + 1]
           i == r.todo.issue
           d == deleteWorktree(GitState, WorktreeName(i), removeOk, rmOk)
       IN  /\ linear' = [linear EXCEPT ![i] = LinearAfter(r.status, @)]
           /\ notes' = [notes EXCEPT ![i] = NotesAfter(r.status, o, @)]
           /\ dir' = IF DeletesTodo(r.status) /\ r.todo.filename \in DOMAIN dir
                     THEN unlink(dir, r.todo.filename) ELSE dir
           /\ IF RemovesWorktree(r.status)
              THEN /\ wts' = d.git.wts
                   /\ wtDirs' = d.git.wtDirs
                   /\ branches' = d.git.branches
                   /\ UNCHANGED mainRef
              ELSE UNCHANGED gitVars
           /\ orch' = [orch EXCEPT
                  ![o].done = @ + 1,
                  ![o].holding = IF r.status = "open" THEN @ ELSE @ \ {i},
                  ![o].report = @ \cup {[issue |-> i, status |-> r.status]}]

\* a Phase 5 that does not wait for 4e to go through the results
BatchDoneEarly(done, results) == TRUE

\* 4e is "for each result": Phase 5 comes when every result is handled
BatchDone(done, results) == done = Len(results)

\* Phase 5: stop, or go to Phase 4 with the next batch
Continue(o) ==
    /\ orch[o].pc = "update"
    /\ BatchDone(orch[o].done, orch[o].results)
    /\ LET allFailed == /\ orch[o].results # <<>>
                        /\ \A k \in 1..Len(orch[o].results) :
                               orch[o].results[k].status = "failed"
           maxReached == /\ orch[o].maxTodos # Unlimited
                         /\ Cardinality(orch[o].report) >= orch[o].maxTodos
       IN  orch' = [orch EXCEPT
               ![o].pc = IF maxReached \/ allFailed \/ orch[o].queue = <<>>
                         THEN "stopped" ELSE "claim",
               ![o].ready = {}, ![o].results = <<>>, ![o].done = 0]
    /\ UNCHANGED <<linear, notes, dir, gitVars>>

(***************************************************************************)
(* Reconciliation with Linear in the sequential skill: Phase 0.5 for each  *)
(* issue fetched, Phase 1.5 for the todo picked. The agent runs one        *)
(* command at a time, so each phase is one step.                           *)
(***************************************************************************)
\* Linear has no issue for the todo
NoRecord == "no record"

\* the title of the Linear issue
TitleOf(i) == IF i = "HOL-1" THEN <<"a">> ELSE <<"b">>

\* completeTodo, blockTodo and the edit that reopens: front matter, then name
Transition(d, filename, status) ==
    LET parts == parseFilename(filename)
        newFilename == buildFilename(parts.number, status, parts.priority, parts.slug)
        written == writeFile(d, filename,
                       [parseFrontmatter(d[filename]) EXCEPT !.status = status])
    IN  IF filename = newFilename THEN written
        ELSE rename(written, filename, newFilename)

completeTodo(d, filename) == Transition(d, filename, "completed")

blockTodo(d, filename) == Transition(d, filename, "blocked")

\* "Reopen local todo": the file goes back to pending
reopenTodo(d, filename) == Transition(d, filename, "pending")

\* createTodo in one piece
createTodo(d, options) ==
    LET number == getNextNumber(d)
        filename == buildFilename(number, "pending", options.priority,
                                  Slugify(options.title))
    IN  writeFile(d, filename, NewFrontmatter(number, options))

\* the todo files that carry the issue
LocalOf(d, i) == {f \in DOMAIN d : parseFrontmatter(d[f]).linear_issue = i}

\* Phase 0.5 step 2: the states the list_issues calls ask for
Fetched(includeBacklog) ==
    {"Todo", "In Progress"} \cup (IF includeBacklog THEN {"Backlog"} ELSE {})

\* Phase 0.5 step 2, the table "Linear State | Local Todo | Action"
SyncAction(external, local) ==
    CASE local = "missing" /\ external = "In Progress" -> "create local in progress"
      [] local = "missing" -> "create local"
      [] external = "Done" /\ local = "pending" -> "complete local"
      [] external = "Backlog" /\ local = "completed" -> "reopen local"
      [] OTHER -> "none"

\* Phase 0.5 step 4, "Reconcile completed items"
ReconcileCompleted(external, local) ==
    CASE external = "Done" /\ local = "pending" -> "complete local"
      [] local = "completed" /\ external # "Done" -> "update Linear to Done"
      [] OTHER -> "none"

\* Phase 1.5 step 2, the table "Linear State | Action"
ValidateAction(external) ==
    CASE external = "Done" -> "complete local"
      [] external = "Cancelled" -> "delete local"
      [] external = "Blocked" -> "block local"
      [] external = "In Progress" -> "continue"
      [] OTHER -> "proceed"

\* what an action does to the todo file
Apply(d, filename, action) ==
    CASE action = "complete local" -> completeTodo(d, filename)
      [] action = "block local" -> blockTodo(d, filename)
      [] action = "reopen local" -> reopenTodo(d, filename)
      [] action = "delete local" -> unlink(d, filename)
      [] OTHER -> d

\* Phase 0.5 for one issue the queries returned: the table of step 2, the
\* create of step 3, then step 4
SyncFromLinear(i, includeBacklog) ==
    /\ \A p \in Procs : cli[p] = Idle
    /\ linear[i] \in Fetched(includeBacklog)
    /\ IF LocalOf(dir, i) = {}
       THEN /\ ParseInt(getNextNumber(dir)) <= MaxNumber
            /\ dir' = createTodo(dir, [priority |-> "p2", title |-> TitleOf(i),
                                       dependencies |-> {}, linearIssue |-> i])
            /\ linear' = linear
            /\ last' = [op |-> "reconcile", phase |-> "sync", issue |-> i,
                        local |-> "missing", external |-> linear[i],
                        created |-> FALSE,
                        action |-> SyncAction(linear[i], "missing")]
       ELSE \E f \in LocalOf(dir, i) :
                LET local == parseFrontmatter(dir[f]).status
                    row == SyncAction(linear[i], local)
                    action == IF row # "none" THEN row
                              ELSE ReconcileCompleted(linear[i], local)
                IN  /\ dir' = Apply(dir, f, action)
                    /\ linear' = IF action = "update Linear to Done"
                                 THEN [linear EXCEPT ![i] = "Done"] ELSE linear
                    /\ last' = [op |-> "reconcile", phase |-> "sync", issue |-> i,
                                local |-> local, external |-> linear[i],
                                created |-> FALSE, action |-> action]
    /\ UNCHANGED cli

\* Phase 1 and Phase 1.5 for the todo "next" returns: step 1 finds or
\* creates the Linear ticket of a todo without linear_issue (a new ticket
\* starts in `fresh`), step 2 acts on the state of the ticket
Validate(order, fresh) ==
    /\ \A p \in Procs : cli[p] = Idle
    /\ LET todo == getNextTodo(dir, order, order)
       IN  /\ todo # NoTodo
           /\ LET f == todo.filename
                  linked == todo.frontmatter.linear_issue # NoIssue
                  i == IF linked THEN todo.frontmatter.linear_issue
                       ELSE CHOOSE j \in Issues : Slugify(TitleOf(j)) = todo.slug
                  external == linear[i]
                  state == IF external = NoRecord THEN fresh ELSE external
                  action == ValidateAction(state)
                  d1 == IF linked THEN dir ELSE updateFromLinear(dir, f, i, NoTitle)
              IN  /\ dir' = Apply(d1, f, action)
                  /\ linear' = [linear EXCEPT ![i] = state]
                  /\ last' = [op |-> "reconcile", phase |-> "validate",
                              issue |-> i, local |-> todo.frontmatter.status,
                              external |-> external,
                              created |-> (external = NoRecord),
                              action |-> action]
    /\ UNCHANGED cli

(***************************************************************************)
(* The workflow of one todo, as the sequential loop (Phases 1 to 10 of the *)
(* Main Loop Instructions) and as a worker (Phases 3 to 10 of the worker   *)
(* skill) run it. `ran` lists the phases that ran for the todo at hand, a  *)
(* phase that is repeated at once being listed once.                       *)
(***************************************************************************)
\* nobody runs a workflow
NoFlow == [pc |-> "none"]

\* CI and P1 fixes: "2 attempts", "2 tries max"
MaxFixes == 2

\* the sequential loop has this many pending todos at most when it starts
MaxPending == 2

Ran(ran, phase) ==
    IF ran # <<>> /\ ran[Len(ran)] = phase THEN ran ELSE Append(ran, phase)

\* what a todo that cannot go on ends as: the loop marks it blocked; a
\* worker returns "blocked" for a P1 finding or a conflict, "failed" for a
\* CI failure or an unexpected error
Stuck(mode, cause) ==
    IF mode = "sequential" \/ cause \in {"p1", "conflict"} THEN "blocked" ELSE "failed"

\* the todo at hand is through: the loop goes to Phase 10, the worker
\* returns its result (worker Phase 10)
Finish(f, result) ==
    [f EXCEPT !.result = result,
              !.pending = @ - 1,
              !.pc = IF f.mode = "sequential" THEN "continue" ELSE "returned"]

\* Phase 1 and Phase 1.5 of the loop: the next todo, and what the state
\* of its Linear issue says
PickNextTodo(external) ==
    /\ flow.pc = "pick"
    /\ LET f == [flow EXCEPT !.iterations = @ + 1, !.ran = <<>>, !.ci = "none",
                             !.fixes = 0, !.pr = "none", !.result = "none"]
       IN  flow' = IF ValidateAction(external) \in {"continue", "proceed"}
                   THEN [f EXCEPT !.pc = "claim"]
                   ELSE [f EXCEPT !.pending = @ - 1, !.pc = "continue"]

\* Phase 1.7 and Phase 2: Linear to In Progress, the feature branch
MarkInProgress ==
    /\ flow.pc = "claim"
    /\ flow' = [flow EXCEPT !.claimed = @ + 1, !.pc = "plan"]

\* Phase 3: Plan (if needed); hasPlan: the todo has a sufficient plan
Plan(hasPlan) ==
    /\ flow.pc = "plan"
    /\ flow' = [flow EXCEPT !.ran = IF hasPlan THEN @ ELSE Ran(@, "Plan"),
                            !.pc = "work"]

\* Phase 4: Work
Work(success) ==
    /\ flow.pc = "work"
    /\ LET f == [flow EXCEPT !.ran = Ran(@, "Work")]
       IN  flow' = IF success THEN [f EXCEPT !.pc = "review"]
                   ELSE Finish(f, Stuck(flow.mode, "error"))

\* Phase 5: Review, unless --skip-review; p1: a P1 finding is left after
\* the two attempts to fix it
Review(p1) ==
    /\ flow.pc = "review"
    /\ IF flow.skipReview
       THEN flow' = [flow EXCEPT !.pc = "compound"]
       ELSE LET f == [flow EXCEPT !.ran = Ran(@, "Review")]
            IN  flow' = IF p1 THEN Finish(f, Stuck(flow.mode, "p1"))
                        ELSE [f EXCEPT !.pc = "compound"]

\* Phase 6: Compound, unless --skip-compound; the loop has its gate next
Compound ==
    /\ flow.pc = "compound"
    /\ flow' = [flow EXCEPT
           !.ran = IF flow.skipCompound THEN @ ELSE Ran(@, "Compound"),
           !.pc = IF flow.mode = "sequential" THEN "gate" ELSE "pr"]

\* Phase 6.5, the blocking conditions: where the loop goes from the gate
Gate(ran, skipReview, skipCompound) ==
    IF ~ skipReview /\ \A k \in 1..Len(ran) : ran[k] # "Review" THEN "review"
    ELSE IF ~ skipCompound /\ \A k \in 1..Len(ran) : ran[k] # "Compound"
    THEN "compound"
    ELSE "pr"

\* Phase 6.5: Workflow Verification Gate
VerificationGate ==
    /\ flow.pc = "gate"
    /\ flow' = [flow EXCEPT !.pc = Gate(flow.ran, flow.skipReview, flow.skipCompound)]

\* Phase 7 of the loop, Phases 7 and 8 of the worker: push and gh pr
\* create; with --no-merge the todo ends with its PR open
OpenPR ==
    /\ flow.pc = "pr"
    /\ LET f == [flow EXCEPT !.ran = Ran(@, "PR"), !.pr = "open"]
       IN  flow' = IF flow.noMerge THEN Finish(f, "completed")
                   ELSE [f EXCEPT !.pc = "ci"]

\* a CI wait after which the merge comes whatever the checks say
AfterCIMerge(passed, fixes) == "merge"

\* after gh pr checks --watch --fail-fast: merge when the checks passed,
\* fix, push and wait again up to MaxFixes times, give up after that
AfterCI(passed, fixes) ==
    IF passed THEN "merge" ELSE IF fixes < MaxFixes THEN "ci" ELSE "stuck"

\* Phase 8 step 1 and 3 of the loop, Phase 9 step 1 and 3 of the worker
WaitForCI(passed) ==
    /\ flow.pc = "ci"
    /\ LET next == AfterCI(passed, flow.fixes)
           f == [flow EXCEPT !.ran = Ran(@, "CI"),
                             !.ci = IF passed THEN "passed" ELSE "failed"]
       IN  flow' = IF next = "stuck" THEN Finish(f, Stuck(flow.mode, "ci"))
                   ELSE [f EXCEPT !.pc = next,
                                  !.fixes = IF next = "ci" THEN @ + 1 ELSE @]

\* gh pr merge --squash --delete-branch. When it fails: after a rebase the
\* checks run again on the new head (a rebase counts as one of the
\* MaxFixes attempts); otherwise the loop logs and goes on with the PR
\* open, and a worker whose rebase fails returns blocked
Merge(ok, rebased) ==
    /\ flow.pc = "merge"
    /\ flow' = IF ok
               THEN Finish([flow EXCEPT !.ran = Ran(@, "Merge"), !.pr = "merged"],
                           "completed")
               ELSE IF rebased /\ flow.fixes < MaxFixes
               THEN [flow EXCEPT !.ci = "none", !.fixes = @ + 1, !.pc = "ci"]
               ELSE IF flow.mode = "sequential" THEN Finish(flow, "completed")
               ELSE Finish(flow, Stuck(flow.mode, "conflict"))

\* Phase 10 step 1: --max-iterations reached
MaxIterationsReached(iterations, max) == max # 0 /\ iterations >= max

\* Phase 10: Continue or Stop
ContinueOrStop ==
    /\ flow.pc = "continue"
    /\ flow' = [flow EXCEPT
           !.pc = IF MaxIterationsReached(flow.iterations, flow.max)
                     \/ flow.pending = 0
                  THEN "stopped" ELSE "pick"]

notFlow == <<storeVars, wtVars, linearVars>>

\* every step of the workflow
FlowStep ==
    \/ \E external \in {"Todo", "Backlog", "In Progress", "Done", "Blocked"} :
           PickNextTodo(external) /\ UNCHANGED notFlow
    \/ MarkInProgress /\ UNCHANGED notFlow
    \/ \E hasPlan \in BOOLEAN : Plan(hasPlan) /\ UNCHANGED notFlow
    \/ \E success \in BOOLEAN : Work(success) /\ UNCHANGED notFlow
    \/ \E p1 \in BOOLEAN : Review(p1) /\ UNCHANGED notFlow
    \/ Compound /\ UNCHANGED notFlow
    \/ VerificationGate /\ UNCHANGED notFlow
    \/ OpenPR /\ UNCHANGED notFlow
    \/ \E passed \in BOOLEAN : WaitForCI(passed) /\ UNCHANGED notFlow
    \/ \E ok \in BOOLEAN, rebased \in BOOLEAN : Merge(ok, rebased) /\ UNCHANGED notFlow
    \/ ContinueOrStop /\ UNCHANGED notFlow

\* the flags of a run
FlowFlags ==
    [skipReview : BOOLEAN, skipCompound : BOOLEAN, noMerge : BOOLEAN]

\* a loop about to pick its first todo, or a worker that read its todo
FlowStarts ==
    {[mode |-> "sequential", skipReview |-> a.skipReview,
      skipCompound |-> a.skipCompound, noMerge |-> a.noMerge, max |-> max,
      pending |-> n, iterations |-> 0, claimed |-> 0, pc |-> "pick",
      ran |-> <<>>, ci |-> "none", fixes |-> 0, pr |-> "none",
      result |-> "none"] : a \in FlowFlags, max \in 0..MaxPending, n \in 1..MaxPending}
    \cup
    {[mode |-> "worker", skipReview |-> a.skipReview,
      skipCompound |-> a.skipCompound, noMerge |-> a.noMerge, max |-> 0,
      pending |-> 1, iterations |-> 1, claimed |-> 1, pc |-> "plan",
      ran |-> <<>>, ci |-> "none", fixes |-> 0, pr |-> "none",
      result |-> "none"] : a \in FlowFlags}

(***************************************************************************)
(* The todo store under concurrent CLI processes                           *)
(***************************************************************************)
Titles == {<<"a">>, <<"B", "!">>}

Id(n) == PadStart3(Digits(n))

DepChoices == {{}, {Blank}, {Id(1)}, {Id(2)}}

\* createTodo inputs of the queue-order specification: every priority, two
\* titles with different slugs, no dependencies
ListOptions ==
    [priority : {"p1", "p3"}, title : Titles, dependencies : {{}},
     linearIssue : {NoIssue}]

\* createTodo inputs of the dependency specification
StoreOptions ==
    [priority : {"p1", "p2"}, title : {<<"a">>}, dependencies : DepChoices,
     linearIssue : {NoIssue}]

WNames == {WorktreeName(i) : i \in Issues}

WBranches == {FeatureBranch(<<"a">>), FeatureBranch(<<"b">>)}

Callers == {"c1", "c2"}

IssueOf(n) == IF n = 1 THEN "HOL-1" ELSE "HOL-2"

\* the todos Phase 1 made of the Linear issues: one pending file per issue
SyncedDir ==
    LET file(n) == buildFilename(Id(n), "pending", "p2",
                                 IF n = 1 THEN <<"a">> ELSE <<"b">>)
        name == {file(1), file(2)}
    IN  [f \in name |->
            [status |-> "pending", priority |-> "p2", issue_id |-> Blank,
             cycle |-> "Current Sprint", deps |-> {},
             linear_issue |-> IssueOf(ParseInt(f.number)),
             title |-> f.slug]]

StoreStart ==
    /\ dir = EmptyDir
    /\ cli = [p \in Procs |-> Idle]
    /\ last = [op |-> "none"]

GitStart ==
    /\ wts = {}
    /\ wtDirs = {}
    /\ branches = {Trunk}
    /\ mainRef = "main"
    /\ wcli = [c \in Callers |-> WIdle]
    /\ wlast = [op |-> "none"]

LinearStart ==
    /\ linear = [i \in Issues |-> "Todo"]
    /\ notes = [i \in Issues |-> {}]
    /\ orch = [o \in Orchs |-> OrchStart]
    /\ flow = NoFlow

StoreInit == StoreStart /\ GitStart /\ LinearStart

\* createTodo inputs of the specification of concurrent transitions
RaceOptions ==
    [priority : {"p1"}, title : {<<"a">>}, dependencies : {{}},
     linearIssue : {NoIssue}]

\* createTodo inputs of the specification of names: a title that has a
\* slug and a title without a letter or digit, whose slug is empty
NameOptions ==
    [priority : {"p1"}, title : {<<"a">>, <<"!">>}, dependencies : {{}},
     linearIssue : {NoIssue}]

\* the new-title argument of update-from-linear
NewTitles == {NoTitle, <<"c">>}

WTInit == StoreStart /\ GitStart /\ LinearStart

Init ==
    /\ dir = SyncedDir
    /\ cli = [p \in Procs |-> Idle]
    /\ last = [op |-> "none"]
    /\ GitStart
    /\ linear \in [Issues -> LinearStates]
    /\ notes = [i \in Issues |-> {}]
    /\ orch \in [Orchs -> {[OrchStart EXCEPT !.workers = n] : n \in 1..Workers}]
    /\ flow = NoFlow

notStore == <<wts, wtDirs, branches, mainRef, wcli, wlast, linear, notes, orch, flow>>

notGit == <<dir, cli, last, linear, notes, orch, flow>>

notOrch == <<cli, last, wcli, wlast, flow>>

\* queue order: creation, cycle assignment and listing
ListNext ==
    \/ \E p \in Procs : CreateNumber(p) /\ UNCHANGED notStore
    \/ \E p \in Procs, options \in ListOptions :
           CreateWrite(p, options) /\ UNCHANGED notStore
    \/ \E f \in DOMAIN dir, c \in Cycles : SyncCycle(f, c) /\ UNCHANGED notStore
    \/ \E p \in Procs, o \in ReadDirOrders(dir) :
           ListCommand(p, NoFilter, o) /\ UNCHANGED notStore

\* dependencies: creation, completion, blocking, deletion and "next"
StoreNext ==
    \/ CreateNumber("p1") /\ UNCHANGED notStore
    \/ \E options \in StoreOptions : CreateWrite("p1", options) /\ UNCHANGED notStore
    \/ \E f \in DOMAIN dir : CompleteRead("p1", f) /\ UNCHANGED notStore
    \/ \E f \in DOMAIN dir : BlockRead("p1", f) /\ UNCHANGED notStore
    \/ TransitionWrite("p1") /\ UNCHANGED notStore
    \/ TransitionRename("p1") /\ UNCHANGED notStore
    \/ \E f \in DOMAIN dir : DeleteTodo("p1", f) /\ UNCHANGED notStore
    \/ \E p \in Procs, o \in ReadDirOrders(dir) :
           NextCommand(p, o) /\ UNCHANGED notStore

\* listing and "next" over a directory with files that lost their front matter
ParseNext ==
    \/ CreateNumber("p1") /\ UNCHANGED notStore
    \/ \E options \in StoreOptions : CreateWrite("p1", options) /\ UNCHANGED notStore
    \/ \E f \in DOMAIN dir : RawEdit(f) /\ UNCHANGED notStore
    \/ \E f \in DOMAIN dir : CompleteRead("p1", f) /\ UNCHANGED notStore
    \/ TransitionWrite("p1") /\ UNCHANGED notStore
    \/ TransitionRename("p1") /\ UNCHANGED notStore
    \/ \E p \in Procs, o \in ReadDirOrders(dir), filter \in {NoFilter, "pending"} :
           ListCommand(p, filter, o) /\ UNCHANGED notStore
    \/ \E p \in Procs, o \in ReadDirOrders(dir) :
           NextCommand(p, o) /\ UNCHANGED notStore

\* names: creation, a new title from Linear, completion and blocking
NameNext ==
    \/ /\ Cardinality(DOMAIN dir) < MaxFiles
       /\ CreateNumber("p1") /\ UNCHANGED notStore
    \/ \E options \in NameOptions : CreateWrite("p1", options) /\ UNCHANGED notStore
    \/ \E f \in DOMAIN dir, t \in NewTitles :
           UpdateFromLinear("p1", f, IssueOf(1), t) /\ UNCHANGED notStore
    \/ \E f \in DOMAIN dir : CompleteRead("p1", f) /\ UNCHANGED notStore
    \/ \E f \in DOMAIN dir : BlockRead("p1", f) /\ UNCHANGED notStore
    \/ TransitionWrite("p1") /\ UNCHANGED notStore
    \/ TransitionRename("p1") /\ UNCHANGED notStore

\* completeTodo and blockTodo run by two processes at once
RaceNext ==
    \/ CreateNumber("p1") /\ UNCHANGED notStore
    \/ \E options \in RaceOptions : CreateWrite("p1", options) /\ UNCHANGED notStore
    \/ \E p \in Procs, f \in DOMAIN dir : CompleteRead(p, f) /\ UNCHANGED notStore
    \/ \E p \in Procs, f \in DOMAIN dir : BlockRead(p, f) /\ UNCHANGED notStore
    \/ \E p \in Procs : TransitionWrite(p) /\ UNCHANGED notStore
    \/ \E p \in Procs : TransitionRename(p) /\ UNCHANGED notStore

\* the todos of the two issues, each with or without its linear_issue key
SyncDirs ==
    {[f \in DOMAIN SyncedDir |->
         [SyncedDir[f] EXCEPT !.linear_issue = IF f \in U THEN NoIssue ELSE @]] :
     U \in SUBSET DOMAIN SyncedDir}

\* a todo that names an issue names one Linear has
SyncInit ==
    /\ dir \in SyncDirs
    /\ cli = [p \in Procs |-> Idle]
    /\ last = [op |-> "none"]
    /\ GitStart
    /\ linear \in [Issues -> LinearStates \cup {NoRecord}]
    /\ \A f \in DOMAIN dir :
           dir[f].linear_issue # NoIssue => linear[dir[f].linear_issue] # NoRecord
    /\ notes = [i \in Issues |-> {}]
    /\ orch = [o \in Orchs |-> OrchStart]
    /\ flow = NoFlow

\* the sequential skill reconciling, and the user completing and blocking
\* todos by hand in between
SyncNext ==
    \/ \E i \in Issues, includeBacklog \in BOOLEAN :
           SyncFromLinear(i, includeBacklog) /\ UNCHANGED <<gitVars, wcli, wlast, notes, orch, flow>>
    \/ \E order \in ReadDirOrders(dir), fresh \in {"Backlog", "Todo"} :
           Validate(order, fresh) /\ UNCHANGED <<gitVars, wcli, wlast, notes, orch, flow>>
    \/ \E f \in DOMAIN dir : CompleteRead("p1", f) /\ UNCHANGED notStore
    \/ \E f \in DOMAIN dir : BlockRead("p1", f) /\ UNCHANGED notStore
    \/ TransitionWrite("p1") /\ UNCHANGED notStore
    \/ TransitionRename("p1") /\ UNCHANGED notStore

\* the worktree CLI under two concurrent callers
WTNext ==
    \/ \E c \in Callers, n \in WNames, b \in WBranches :
           CreateWorktreeCheck(c, n, b) /\ UNCHANGED notGit
    \/ \E c \in Callers, fetched \in BOOLEAN :
           CreateWorktreeAdd(c, fetched) /\ UNCHANGED notGit
    \/ \E c \in Callers, ok \in BOOLEAN :
           CreateWorktreeInstall(c, ok) /\ UNCHANGED notGit
    \/ \E c \in Callers, n \in WNames : DeleteWorktreeCheck(c, n) /\ UNCHANGED notGit
    \/ \E c \in Callers, ok \in BOOLEAN :
           DeleteWorktreeRemove(c, ok) /\ UNCHANGED notGit
    \/ \E c \in Callers : DeleteWorktreePrune(c) /\ UNCHANGED notGit
    \/ \E c \in Callers, ok \in BOOLEAN :
           DeleteWorktreeManual(c, ok) /\ UNCHANGED notGit
    \/ \E c \in Callers, n \in WNames : ExistsCommand(c, n) /\ UNCHANGED notGit

\* two orchestrator runs in one repository against one Linear team
Next ==
    \/ \E o \in Orchs, order \in ReadDirOrders(dir) :
           BuildQueue(o, order) /\ UNCHANGED notOrch
    \/ \E o \in Orchs : ClaimGet(o) /\ UNCHANGED notOrch
    \/ \E o \in Orchs : ClaimDecide(o) /\ UNCHANGED notOrch
    \/ \E o \in Orchs : ClaimEnd(o) /\ UNCHANGED notOrch
    \/ \E o \in Orchs, fetched \in BOOLEAN, ok \in BOOLEAN :
           Provision(o, fetched, ok) /\ UNCHANGED notOrch
    \/ \E o \in Orchs : Dispatch(o) /\ UNCHANGED notOrch
    \/ \E o \in Orchs : \E todo \in orch[o].running :
           WorkerValidate(o, todo) /\ UNCHANGED notOrch
    \/ \E o \in Orchs, outcome \in Outcomes : \E todo \in orch[o].running :
           WorkerReturn(o, todo, outcome) /\ UNCHANGED notOrch
    \/ \E o \in Orchs : \E todo \in orch[o].running :
           WorkerTimeout(o, todo) /\ UNCHANGED notOrch
    \/ \E o \in Orchs, removeOk \in BOOLEAN, rmOk \in BOOLEAN :
           UpdateState(o, removeOk, rmOk) /\ UNCHANGED notOrch
    \/ \E o \in Orchs : Continue(o) /\ UNCHANGED notOrch

\* the steps of the batch loop of one orchestrator run, Phase 4 and Phase 5
OrchStep(o) ==
    \/ ClaimGet(o) /\ UNCHANGED notOrch
    \/ ClaimDecide(o) /\ UNCHANGED notOrch
    \/ ClaimEnd(o) /\ UNCHANGED notOrch
    \/ \E fetched \in BOOLEAN, ok \in BOOLEAN :
           Provision(o, fetched, ok) /\ UNCHANGED notOrch
    \/ Dispatch(o) /\ UNCHANGED notOrch
    \/ \E todo \in orch[o].running : WorkerValidate(o, todo) /\ UNCHANGED notOrch
    \/ \E outcome \in Outcomes : \E todo \in orch[o].running :
           WorkerReturn(o, todo, outcome) /\ UNCHANGED notOrch
    \/ \E todo \in orch[o].running : WorkerTimeout(o, todo) /\ UNCHANGED notOrch
    \/ \E removeOk \in BOOLEAN, rmOk \in BOOLEAN :
           UpdateState(o, removeOk, rmOk) /\ UNCHANGED notOrch
    \/ Continue(o) /\ UNCHANGED notOrch

\* the arguments of a run: the defaults of this model, or one worker and
\* --max-todos 1
RunArgs == {[workers |-> Workers, maxTodos |-> Unlimited],
            [workers |-> 1, maxTodos |-> 1]}

\* two runs at the start of Phase 4, each with the queue Phase 2 built,
\* over issues nobody has finished
LiveInit ==
    /\ dir = SyncedDir
    /\ cli = [p \in Procs |-> Idle]
    /\ last = [op |-> "none"]
    /\ GitStart
    /\ linear \in [Issues -> {"Todo", "In Progress"}]
    /\ notes = [i \in Issues |-> {}]
    /\ flow = NoFlow
    /\ orch \in [Orchs -> {[OrchStart EXCEPT !.pc = "claim",
                                             !.queue = ApplyMaxTodos(
                                                 BuildWorkQueue(SyncedDir, order),
                                                 a.maxTodos),
                                             !.workers = a.workers,
                                             !.maxTodos = a.maxTodos] :
                               a \in RunArgs, order \in ReadDirOrders(SyncedDir)}]

\* the batch loops of the two runs
LiveNext == \E o \in Orchs : OrchStep(o)

\* a run of one orchestrator while somebody runs "cleanup"
CleanupNext ==
    \/ OrchStep("o1")
    \/ \E removeOk \in [WNames -> BOOLEAN], rmOk \in [WNames -> BOOLEAN] :
           CleanupCommand(removeOk, rmOk) /\ UNCHANGED notGit

\* one sequential loop, or one worker, on its own
FlowInit ==
    /\ StoreStart /\ GitStart
    /\ linear = [i \in Issues |-> "Todo"]
    /\ notes = [i \in Issues |-> {}]
    /\ orch = [o \in Orchs |-> OrchStart]
    /\ flow \in FlowStarts

FlowNext == FlowStep

\* the arguments of a parallel run with a maximum smaller than a batch
MaxArgs == {[workers |-> Workers, maxTodos |-> 1],
            [workers |-> 1, maxTodos |-> 1],
            [workers |-> Workers, maxTodos |-> Unlimited]}

\* one run with a maximum: a parallel run that has built its queue, or a
\* sequential loop about to pick its first todo
MaxInit ==
    \/ /\ dir = SyncedDir
       /\ cli = [p \in Procs |-> Idle]
       /\ last = [op |-> "none"]
       /\ GitStart
       /\ linear \in [Issues -> {"Todo", "In Progress"}]
       /\ notes = [i \in Issues |-> {}]
       /\ flow = NoFlow
       /\ \E a \in MaxArgs, order \in ReadDirOrders(SyncedDir) :
              orch = [o \in Orchs |->
                         IF o = "o1"
                         THEN [OrchStart EXCEPT
                                  !.pc = "claim",
                                  !.queue = ApplyMaxTodos(
                                      BuildWorkQueue(SyncedDir, order), a.maxTodos),
                                  !.workers = a.workers,
                                  !.maxTodos = a.maxTodos]
                         ELSE OrchStart]
    \/ /\ FlowInit
       /\ flow.mode = "sequential"

MaxNext ==
    \/ OrchStep("o1")
    \/ FlowStep

\* the todos of the two issues as createTodo writes them with
\* --linear-issue: todo 001 for HOL-1, and todo 002 for HOL-2 with the
\* dependencies `deps`
DependentDir(deps) ==
    LET options(n) == [priority |-> "p2",
                       title |-> IF n = 1 THEN <<"a">> ELSE <<"b">>,
                       dependencies |-> IF n = 1 THEN {} ELSE deps,
                       linearIssue |-> IssueOf(n)]
        file(n) == buildFilename(Id(n), "pending", "p2",
                                 Slugify(options(n).title))
    IN  [f \in {file(1), file(2)} |->
            NewFrontmatter(f.number, options(ParseInt(f.number)))]

\* todo 002 depends on todo 001, or on nothing
DependentDirs == {DependentDir({}), DependentDir({Id(1)})}

\* one parallel run over todos with dependencies, and the "next" command
DepsInit ==
    /\ dir \in DependentDirs
    /\ cli = [p \in Procs |-> Idle]
    /\ last = [op |-> "none"]
    /\ GitStart
    /\ linear = [i \in Issues |-> "Todo"]
    /\ notes = [i \in Issues |-> {}]
    /\ flow = NoFlow
    /\ \E a \in RunArgs, order \in ReadDirOrders(dir) :
           orch = [o \in Orchs |->
                      IF o = "o1"
                      THEN [OrchStart EXCEPT
                               !.pc = "claim",
                               !.queue = ApplyMaxTodos(BuildWorkQueue(dir, order),
                                                       a.maxTodos),
                               !.workers = a.workers,
                               !.maxTodos = a.maxTodos]
                      ELSE OrchStart]

DepsNext ==
    \/ OrchStep("o1")
    \/ \E order \in ReadDirOrders(dir) :
           NextCommand("p1", order) /\ UNCHANGED notStore

vars ==
    <<dir, cli, last, wts, wtDirs, branches, mainRef, wcli, wlast, linear, notes,
      orch, flow>>

SpecList == StoreInit /\ [][ListNext]_vars

SpecStore == StoreInit /\ [][StoreNext]_vars

SpecParse == StoreInit /\ [][ParseNext]_vars

SpecName == StoreInit /\ [][NameNext]_vars

SpecRace == StoreInit /\ [][RaceNext]_vars

SpecWT == WTInit /\ [][WTNext]_vars

SpecSync == SyncInit /\ [][SyncNext]_vars

Spec == Init /\ [][Next]_vars

\* an orchestrator that can take a step takes one: the agent goes on to its
\* next phase, and a worker returns or is timed out
SpecCleanup == LiveInit /\ [][CleanupNext]_vars

SpecFlow == FlowInit /\ [][FlowNext]_vars

SpecMax == MaxInit /\ [][MaxNext]_vars

SpecDeps == DepsInit /\ [][DepsNext]_vars

SpecLive == LiveInit /\ [][LiveNext]_vars /\ \A o \in Orchs : WF_vars(OrchStep(o))

(***************************************************************************)
(* Properties                                                              *)
(***************************************************************************)
OpenStates == {"Todo", "Backlog"}

\* the orchestrators whose claim of issue i is in force
Claimants(i) == {o \in Orchs : i \in orch[o].holding}

\* C1: of two orchestrators that run 4a on the same open issue under any
\* interleaving of get_issue and update_issue, one claims it and the other
\* skips it: no issue has two claimants at once
C1_OneClaimant == \A i \in Issues : Cardinality(Claimants(i)) <= 1

\* the state C1 excludes: an issue both orchestrators hold
C1_BothClaimed == \E i \in Issues : Claimants(i) = Orchs

\* o decides on the head of its queue in this step
Decides(o) == orch[o].pc = "decide" /\ orch'[o].pc # "decide"

InBatch(o) ==
    {t.issue : t \in orch[o].ready \cup orch[o].running}
        \cup {orch[o].claimed[k].issue : k \in 1..Len(orch[o].claimed)}
        \cup {orch[o].results[k].todo.issue : k \in 1..Len(orch[o].results)}

\* C3: the orchestrator that found an issue already claimed creates no
\* worktree for it and dispatches no worker on it, reports no failure for
\* it, and goes on with the next todo of its queue
C3_SkipMovesOn ==
    /\ [](\A o \in Orchs : \A i \in orch[o].skipped :
              /\ i \notin orch[o].provisioned
              /\ i \notin orch[o].dispatched
              /\ i \notin InBatch(o)
              /\ \A w \in wts : ~(w.name = WorktreeName(i) /\ w.by = o)
              /\ \A r \in orch[o].report : r.issue # i)
    /\ [][\A o \in Orchs : (Decides(o) /\ orch[o].seen \notin OpenStates) =>
              /\ orch'[o].pc = "claim"
              /\ orch'[o].queue = Tail(orch[o].queue)
              /\ orch'[o].claimed = orch[o].claimed]_vars

\* o lost the race for i to p, then claimed j, worked on it and stopped
C3_Witness ==
    \E o, p \in Orchs, i, j \in Issues :
        /\ o # p
        /\ i \in orch[o].skipped
        /\ i \in orch[p].holding
        /\ j \in orch[o].dispatched
        /\ orch[o].pc = "stopped"

\* C4: the list listTodos returns does not depend on the order in which
\* readdir returns the file names: reading the same directory in any other
\* order gives the list that was printed
C4_OrderIndependent ==
    last.op = "list" =>
        \A o \in ReadDirOrders(dir) : listTodos(dir, o, last.statusFilter) = last.todos

\* the non-blank dependencies of the todo in file f
DepsOf(f) == {x \in dir[f].deps : x # Blank}

\* some completed todo carries the id x
Completed(x) == \E g \in DOMAIN dir : dir[g].status = "completed" /\ dir[g].issue_id = x

DepsMet(f) == \A x \in DepsOf(f) : Completed(x)

\* C5: getNextTodo returns the first todo of the pending queue whose
\* non-blank dependencies are all ids of completed todos, and null exactly
\* when the queue has no such todo
C5_NextIsFirstEligible ==
    last.op = "next" =>
        \E o \in ReadDirOrders(dir) :
            LET queue == listTodos(dir, o, "pending")
                eligible == {k \in 1..Len(queue) : DepsMet(queue[k].filename)}
            IN  IF eligible = {} THEN last.todo = NoTodo
                ELSE \E k \in eligible :
                         /\ \A j \in eligible : k <= j
                         /\ last.todo = queue[k]

\* "next" passed over an earlier todo with an unmet dependency
C5_Witness ==
    /\ last.op = "next"
    /\ last.todo # NoTodo
    /\ \E f \in DOMAIN dir :
           /\ dir[f].status = "pending"
           /\ ~ DepsMet(f)
           /\ CompareTodos(TodoOf(dir, f), last.todo) < 0

Returned(f) == IF last.todo = NoTodo THEN FALSE ELSE last.todo.filename = f

\* C6: a pending todo A that depends on B is not returned by getNextTodo
\* while no completed todo carries B's id; once all its dependencies are
\* completed the next call returns A or a todo that sorts before it
C6_DependencyGate ==
    last.op = "next" =>
        \A a \in DOMAIN dir : (dir[a].status = "pending" /\ DepsOf(a) # {}) =>
            /\ (\E b \in DepsOf(a) : ~ Completed(b)) => ~ Returned(a)
            /\ DepsMet(a) =>
                   /\ last.todo # NoTodo
                   /\ Returned(a) \/ CompareTodos(last.todo, TodoOf(dir, a)) <= 0

\* "next" returns a todo with a dependency, which is completed
C6_Witness ==
    /\ last.op = "next"
    /\ \E a \in DOMAIN dir : Returned(a) /\ DepsOf(a) # {} /\ DepsMet(a)

\* a dependency of f names no todo of the directory
Dangling(f) == \E x \in DepsOf(f) : \A g \in DOMAIN dir : dir[g].issue_id # x

\* C7: a pending todo with a dependency on an id no todo carries is never
\* returned by getNextTodo, and "next" tells the operator so: what it prints
\* differs from what it prints for dependencies that are not completed yet
C7_DanglingFlagged ==
    (last.op = "next" /\ \E f \in DOMAIN dir : dir[f].status = "pending" /\ Dangling(f)) =>
        /\ \A f \in DOMAIN dir : Dangling(f) => ~ Returned(f)
        /\ last.todo = NoTodo => last.message # NoneMessage

\* C8: createTodo with the new todo's own id among its dependencies is
\* rejected: it reports no success and the directory has the files it had
C8_SelfDependencyRejected ==
    (last.op = "create" /\ last.number \in last.options.dependencies) =>
        /\ ~ last.success
        /\ DOMAIN dir = last.before

\* caller c's createWorktree returns at the name check in this step
ReturnsAtCheck(c) == wcli[c] = WIdle /\ wlast'.op = "create" /\ wlast'.by = c

\* caller c's createWorktree passes the name check in this step
PassesCheck(c) == wcli[c] = WIdle /\ wcli'[c].op = "create"

\* caller c's createWorktree runs the fetch and git worktree add in this step
Adds(c) == wcli[c].op = "create" /\ wcli[c].stage = "add" /\ wcli'[c] # wcli[c]

Registered(name) == \E w \in wts : w.name = name

\* C9: createWorktree fails when a worktree of the name is registered or
\* the branch exists, and then no worktree and no branch is created or
\* removed; before it fails on the branch it may have fetched main
C9_CreateFailsOnExisting ==
    [][\A c \in Callers :
          /\ PassesCheck(c) => ~ Registered(wcli'[c].name)
          /\ ReturnsAtCheck(c) =>
                 /\ ~ wlast'.success
                 /\ UNCHANGED <<wts, wtDirs, branches, mainRef>>
          /\ (Adds(c) /\ (Registered(wcli[c].name) \/ wcli[c].branch \in branches)) =>
                 /\ wlast'.op = "create" /\ ~ wlast'.success
                 /\ UNCHANGED <<wts, wtDirs, branches>>]_vars

\* C9 as stated: a createWorktree that fails on an existing name or branch
\* modifies no worktree and no branch, main included
C9_CreateFailsTouchingNothing ==
    [][\A c \in Callers :
          (Adds(c) /\ (Registered(wcli[c].name) \/ wcli[c].branch \in branches)) =>
              /\ wlast'.op = "create" /\ ~ wlast'.success
              /\ UNCHANGED <<wts, wtDirs, branches, mainRef>>]_vars

\* a createWorktree failed on a branch that exists, under a free name
C9_Witness ==
    /\ wlast.op = "create"
    /\ ~ wlast.success
    /\ wlast.error = "Failed to create worktree"
    /\ wlast.message = "Command failed: git worktree add"
    /\ wlast.branch \in branches
    /\ ~ Registered(wlast.name)
    /\ wlast.name \notin wtDirs

\* caller c's createWorktree runs bun install and returns in this step
Installs(c) == wcli[c].op = "create" /\ wcli[c].stage = "install" /\ wcli'[c] = WIdle

\* C11: a createWorktree that fails after git worktree add either leaves no
\* worktree, directory or branch of its own behind, or returns a result
\* that carries the path of the workspace left for manual deletion
C11_NoBrokenWorkspace ==
    [][\A c \in Callers : (Installs(c) /\ ~ wlast'.success) =>
          \/ /\ \A w \in wts' : w.name # wcli[c].name
             /\ wcli[c].name \notin wtDirs'
             /\ wcli[c].branch \notin branches'
          \/ "path" \in DOMAIN wlast']_vars

\* caller c's deleteWorktree returns in this step
Deletes(c) == wcli[c].op = "delete" /\ wcli'[c] = WIdle

\* C12: worktreeExists is true of a name right after a successful
\* createWorktree, and when a deleteWorktree of it reports success, by git
\* worktree remove or by the manual cleanup, and nobody else is at work on
\* the repository, the directory and the branch are gone and
\* worktreeExists is false
C12_RoundTrip ==
    /\ []((wlast.op = "create" /\ wlast.success) =>
              worktreeExists(wtDirs, wlast.name))
    /\ []((wlast.op = "exists" /\ wlast.exists) => wlast.name \in wtDirs)
    /\ [][\A c \in Callers :
              (/\ Deletes(c)
               /\ wlast'.success
               /\ \A other \in Callers \ {c} : wcli[other] = WIdle) =>
                  /\ wcli[c].name \notin wtDirs'
                  /\ ~ worktreeExists(wtDirs', wcli[c].name)
                  /\ wcli[c].branch \notin branches']_vars

\* file f is between the writeFile and the rename of a completeTodo or
\* blockTodo: it has the new content under the old name
InWindow(f) ==
    \E p \in Procs :
        /\ cli[p].op \in {"complete", "block"}
        /\ cli[p].stage = "rename"
        /\ cli[p].filename = f
        /\ dir[f].status = cli[p].frontmatter.status

\* C13: the status in the name of every todo file is the status in its
\* front matter, except between the writeFile and the rename of one
\* completeTodo or blockTodo, when the old name holds the new content
C13_FilenameMatchesFrontmatter ==
    \A f \in DOMAIN dir : f.status = dir[f].status \/ InWindow(f)

\* the largest number in the names of the todo files, 0 when there is none
MaxExisting ==
    LET nums == {ParseInt(f.number) : f \in DOMAIN dir} \cup {0}
    IN  CHOOSE n \in nums : \A k \in nums : k <= n

\* C14: createTodo takes the largest number among the todo files plus one,
\* as three digits, and writes a file that is pending in its name and in
\* its front matter, with that number as issue_id
C14_NextNumber ==
    [][\A p \in Procs :
          /\ (cli[p] = Idle /\ cli'[p].op = "create") =>
                 /\ ParseInt(cli'[p].number) = MaxExisting + 1
                 /\ Len(cli'[p].number) = 3
          /\ (cli[p].op = "create" /\ cli'[p] = Idle) =>
                 /\ last'.op = "create" /\ last'.success
                 /\ last'.filename \in DOMAIN dir'
                 /\ last'.filename.number = cli[p].number
                 /\ last'.filename.status = "pending"
                 /\ dir'[last'.filename].status = "pending"
                 /\ dir'[last'.filename].issue_id = cli[p].number]_vars

\* createTodo made todo 002 next to a todo 001 that is no longer pending
C14_Witness ==
    /\ last.op = "create"
    /\ last.number = <<0, 0, 2>>
    /\ last.filename \in DOMAIN dir
    /\ \E f \in DOMAIN dir : f.number = <<0, 0, 1>> /\ f.status = "completed"

\* the file names in a list of todos
Listed(todos) == {todos[k].filename : k \in 1..Len(todos)}

\* C15: with a file without front matter in the directory, listTodos
\* returns every well-formed todo (of the status asked for) and leaves
\* the malformed file out, and getNextTodo never returns that file
C15_MalformedSkipped ==
    /\ last.op = "list" =>
           \A f \in DOMAIN dir :
               IF dir[f] = NoFrontmatter THEN f \notin Listed(last.todos)
               ELSE (last.statusFilter \in {NoFilter, dir[f].status}) =>
                        f \in Listed(last.todos)
    /\ (last.op = "next" /\ last.todo # NoTodo) =>
           dir[last.todo.filename] # NoFrontmatter

\* o handles the next result of its batch in this step (4e)
Updates(o) == orch[o].pc = "update" /\ orch'[o].done = orch[o].done + 1

\* the result o handles in this step
Handled(o) == orch[o].results[orch[o].done + 1]

Gone(registered, onDisk, name) ==
    name \notin onDisk /\ \A w \in registered : w.name # name

Kept(registered, onDisk, name) ==
    name \in onDisk /\ \E w \in registered : w.name = name

Reconciled(o) == {orch[o].results[k] : k \in 1..orch[o].done}

C17_LinearAfterCleanup ==
    [][\A o \in Orchs : Updates(o) =>
          LET i == Handled(o).todo.issue
              status == Handled(o).status
          IN  /\ status = "merged" => linear'[i] = "Done"
              /\ status = "open" => linear'[i] = "In Progress"
              /\ status = "blocked" =>
                    linear'[i] = "Blocked" /\ BlockedNote(o) \in notes'[i]
              /\ status = "failed" => linear'[i] = "Todo"]_vars

\* one batch after 4e with a merged todo whose issue is Done and a blocked
\* one whose issue is Blocked with the reason
C17_Witness ==
    \E o \in Orchs : \E r1, r2 \in Reconciled(o) :
        /\ r1.status = "merged" /\ linear[r1.todo.issue] = "Done"
        /\ r2.status = "blocked" /\ linear[r2.todo.issue] = "Blocked"
        /\ BlockedNote(o) \in notes[r2.todo.issue]

\* the todo file f as blockTodo leaves it
BlockedName(f) == [f EXCEPT !.status = "blocked"]

\* C18: when 4e is through with a result, the file of the todo is deleted
\* if the result was completed and merged, is renamed to blocked with
\* status blocked in its front matter if the result was blocked, and is as
\* it was, pending, if the result was failed; no other file has changed
C18_StoreAfterCleanup ==
    [][\A o \in Orchs : Updates(o) =>
          LET f == Handled(o).todo.filename
              status == Handled(o).status
          IN  /\ status = "merged" => f \notin DOMAIN dir'
              /\ status = "blocked" =>
                    /\ f \notin DOMAIN dir'
                    /\ BlockedName(f) \in DOMAIN dir'
                    /\ parseFrontmatter(dir'[BlockedName(f)]).status = "blocked"
              /\ status = "failed" =>
                    /\ f \in DOMAIN dir'
                    /\ f.status = "pending"
                    /\ dir'[f] = dir[f]
              /\ \A g \in (DOMAIN dir \cup DOMAIN dir') \ {f, BlockedName(f)} :
                    g \in DOMAIN dir /\ g \in DOMAIN dir' /\ dir'[g] = dir[g]]_vars

\* one batch after 4e with a merged todo whose file is deleted and a
\* blocked one whose file is still there under its pending name
C18_Witness ==
    \E o \in Orchs : \E r1, r2 \in Reconciled(o) :
        /\ r1.status = "merged" /\ r1.todo.filename \notin DOMAIN dir
        /\ r2.status = "blocked" /\ r2.todo.filename \in DOMAIN dir
        /\ r2.todo.filename.status = "pending"

\* C19: a reconciliation returns the action of the decision table: for
\* Linear Done and a pending or in-progress todo, complete the todo; for
\* Linear Cancelled, delete the todo whatever its status; for Linear Blocked
\* and a pending todo, block the todo; for Linear Backlog or Todo and a
\* completed todo, reopen the todo; for a todo with no Linear issue, create
\* the issue
C19_ReconcileTable ==
    last.op = "reconcile" =>
        /\ (last.external = "Done" /\ last.local \in {"pending", "in_progress"})
               => last.action = "complete local"
        /\ last.external = "Cancelled" => last.action = "delete local"
        /\ (last.external = "Blocked" /\ last.local = "pending")
               => last.action = "block local"
        /\ (last.external \in {"Backlog", "Todo"} /\ last.local = "completed")
               => last.action = "reopen local"
        /\ last.external = NoRecord => last.created

\* a reconciliation of a pending todo whose issue is Done: the todo has
\* been completed
C19_Witness ==
    /\ last.op = "reconcile"
    /\ last.external = "Done"
    /\ last.local = "pending"
    /\ last.action = "complete local"
    /\ \E f \in LocalOf(dir, last.issue) :
           f.status = "completed" /\ dir[f].status = "completed"

\* o takes a step of 4a, 4b or 4c
Advances(o) ==
    /\ orch[o].pc \in {"claim", "decide", "provision"}
    /\ orch'[o] # orch[o]

\* the issues whose result o has been through in 4e
Reported(o) == {r.issue : r \in orch[o].report}

\* C20: an orchestrator takes no claim, worktree or dispatch step while a
\* worker it dispatched is still running or a result of it is not yet
\* through 4e: every todo dispatched before the step has been reported
C20_BatchBarrier ==
    [][\A o \in Orchs : Advances(o) =>
          /\ orch[o].running = {}
          /\ orch[o].done = Len(orch[o].results)
          /\ orch[o].dispatched \subseteq Reported(o)]_vars

\* an orchestrator in its second batch: it has claimed a todo after the
\* one it dispatched before was reported
C20_Witness ==
    \E o \in Orchs :
        /\ orch[o].pc = "provision"
        /\ orch[o].claimed # <<>>
        /\ orch[o].dispatched # {}
        /\ orch[o].dispatched \subseteq Reported(o)

Batch(o) ==
    {orch[o].claimed[k] : k \in 1..Len(orch[o].claimed)}
        \cup orch[o].ready \cup orch[o].running
        \cup {orch[o].results[k].todo : k \in 1..Len(orch[o].results)}

\* o ends 4a in this step
EndsClaiming(o) == orch[o].pc = "claim" /\ orch'[o].pc \in {"provision", "stopped"}

\* C22: 4a looks at the head of the queue and takes it off, claimed or
\* skipped, and goes on at once; it ends when the batch holds --workers
\* todos or the queue is used up, and not before; a batch never holds more
\* than --workers todos, which is at most 5, nor the same todo twice
C22_ClaimBatch ==
    /\ [](\A o \in Orchs :
            /\ orch[o].workers <= MaxWorkers
            /\ Cardinality(Batch(o)) <= orch[o].workers
            /\ \A j, k \in 1..Len(orch[o].claimed) :
                   orch[o].claimed[j].issue = orch[o].claimed[k].issue => j = k)
    /\ [][\A o \in Orchs :
            /\ Decides(o) =>
                  /\ orch'[o].queue = Tail(orch[o].queue)
                  /\ orch'[o].pc = "claim"
                  /\ orch'[o].claimed \in
                        {orch[o].claimed, Append(orch[o].claimed, Head(orch[o].queue))}
                  /\ orch[o].seen \notin Claimable =>
                        orch'[o].claimed = orch[o].claimed
            /\ EndsClaiming(o) =>
                  \/ orch[o].queue = <<>>
                  \/ Len(orch[o].claimed) = orch[o].workers]_vars

\* a batch of one: the first todo was skipped, the second claimed, and 4a
\* ended with the queue used up
C22_Witness ==
    \E o \in Orchs :
        /\ orch[o].pc = "provision"
        /\ orch[o].skipped # {}
        /\ Len(orch[o].claimed) = 1
        /\ orch[o].claimed[1].issue \notin orch[o].skipped
        /\ orch[o].queue = <<>>

\* o runs 4b for the head of its claimed todos in this step
Provisions(o) ==
    /\ orch[o].pc = "provision"
    /\ orch[o].claimed # <<>>
    /\ orch'[o].claimed = Tail(orch[o].claimed)

\* o launches the workers of its batch in this step
Dispatches(o) ==
    /\ orch[o].pc = "provision"
    /\ orch[o].claimed = <<>>
    /\ orch'[o].pc \in {"collect", "update"}

\* C23: when 4b fails for a claimed todo, its issue is back in Todo and the
\* orchestrator holds it no longer, the todo is not among those to
\* dispatch, and 4b goes on with the rest of the batch; 4c launches a
\* worker for each todo whose worktree was created and for no other
C23_ProvisionFailure ==
    [][\A o \in Orchs :
          /\ (Provisions(o) /\ Head(orch[o].claimed) \notin orch'[o].ready) =>
                LET i == Head(orch[o].claimed).issue
                IN  /\ linear'[i] = "Todo"
                    /\ i \notin orch'[o].holding
                    /\ orch'[o].ready = orch[o].ready
                    /\ orch'[o].running = {}
                    /\ orch'[o].pc = "provision"
          /\ Dispatches(o) =>
                /\ orch'[o].running = orch[o].ready
                /\ orch'[o].dispatched =
                      orch[o].dispatched \cup {t.issue : t \in orch[o].ready}]_vars

\* a batch of two at work: 4b failed for one todo, whose issue is back in
\* Todo, and the worker of the other is running
C23_Witness ==
    \E o \in Orchs : \E i \in orch[o].provisioned \ orch[o].dispatched :
        /\ linear[i] = "Todo"
        /\ i \notin orch[o].holding
        /\ orch[o].pc = "collect"
        /\ \E t \in orch[o].running : t.issue # i
        /\ orch[o].workers > 1

\* C24: a worker that timed out is handled in 4e as failed: after it the
\* issue is in Todo, the todo file is there, pending and untouched, and
\* the worktree and its branch are there, untouched; and no batch waits for
\* a worker forever
C24_Timeout ==
    /\ [][\A o \in Orchs : (Updates(o) /\ Handled(o).timedOut) =>
             LET i == Handled(o).todo.issue
                 f == Handled(o).todo.filename
             IN  /\ Handled(o).status = "failed"
                 /\ linear'[i] = "Todo"
                 /\ dir' = dir
                 /\ f \in DOMAIN dir'
                 /\ f.status = "pending"
                 /\ parseFrontmatter(dir'[f]).status = "pending"
                 /\ UNCHANGED <<wts, wtDirs, branches>>
                 /\ Kept(wts', wtDirs', WorktreeName(i))]_vars
    /\ \A o \in Orchs : (orch[o].pc = "collect") ~> (orch[o].pc = "update")

\* 4e is through with a worker that timed out: the issue is in Todo, the
\* file pending and the worktree there
C24_Witness ==
    \E o \in Orchs : \E r \in Reconciled(o) :
        /\ r.timedOut
        /\ linear[r.todo.issue] = "Todo"
        /\ r.todo.filename \in DOMAIN dir
        /\ Kept(wts, wtDirs, WorktreeName(r.todo.issue))

\* C25: a reconciliation that finds the Linear issue of the todo leaves the
\* state of every Linear issue as it is, whatever the local todo says
C25_LinearWins ==
    [][(last'.op = "reconcile" /\ last'.external # NoRecord) => linear' = linear]_vars

\* Phase 0.5 found a completed todo whose issue was not Done, and the issue
\* is Done now
C25_Witness ==
    /\ last.op = "reconcile"
    /\ last.local = "completed"
    /\ last.external \notin {"Done", NoRecord}
    /\ last.action = "update Linear to Done"
    /\ linear[last.issue] = "Done"

\* C26: the state of a Linear issue changes only from Todo or Backlog to
\* In Progress and from In Progress to Done, Blocked or Todo (a new issue
\* gets its first state)
C26_OnlyClaimEdges ==
    [][\A i \in Issues : linear'[i] # linear[i] =>
          \/ linear[i] = NoRecord
          \/ linear[i] \in {"Todo", "Backlog"} /\ linear'[i] = "In Progress"
          \/ linear[i] = "In Progress" /\ linear'[i] \in {"Done", "Blocked", "Todo"}]_vars

\* Phase 0.5 has written Done to an issue that was in Todo
C26_Witness ==
    /\ last.op = "reconcile"
    /\ last.external = "Todo"
    /\ last.action = "update Linear to Done"
    /\ linear[last.issue] = "Done"

\* a completeTodo or blockTodo of process p ends having renamed the file
Renames(p) ==
    /\ cli[p].op \in {"complete", "block"}
    /\ cli[p].stage = "rename"
    /\ cli'[p] = Idle
    /\ last'.success

\* C27: completeTodo and blockTodo change only the status segment of the
\* name: the number, the priority and the slug of the new name are those
\* of the old name, whatever title the file has by then
C27_SegmentsKept ==
    [][\A p \in Procs :
          Renames(p) =>
              /\ last'.newFilename \in DOMAIN dir'
              /\ last'.newFilename.number = cli[p].filename.number
              /\ last'.newFilename.priority = cli[p].filename.priority
              /\ last'.newFilename.slug = cli[p].filename.slug
              /\ last'.newFilename.status =
                     (IF cli[p].op = "complete" THEN "completed" ELSE "blocked")]_vars

\* the same for the names parseFilename matches
C27_MatchedSegmentsKept ==
    [][\A p \in Procs :
          (Renames(p) /\ MatchesFilename(cli[p].filename)) =>
              /\ last'.newFilename \in DOMAIN dir'
              /\ last'.newFilename.number = cli[p].filename.number
              /\ last'.newFilename.priority = cli[p].filename.priority
              /\ last'.newFilename.slug = cli[p].filename.slug]_vars

\* a todo was completed after update-from-linear gave it a title with
\* another slug
C27_Witness ==
    /\ last.op = "complete" /\ last.success
    /\ last.newFilename \in DOMAIN dir
    /\ last.newFilename.status = "completed"
    /\ dir[last.newFilename].title = <<"c">>
    /\ last.newFilename.slug = <<"a">>

\* a todo whose slug is empty was completed
C27_EmptySlugCompleted ==
    /\ last.op = "complete" /\ last.success
    /\ last.newFilename \in DOMAIN dir
    /\ last.newFilename.number = <<0, 0, 0>>
    /\ last.newFilename.priority = "p3"

\* C28: deleteWorktree of a name that is not registered reports failure and
\* changes nothing, and only a registered name gets as far as git worktree
\* remove; when git worktree remove fails the call goes on to the manual
\* cleanup with nothing changed yet; the manual cleanup reports success
\* only with the directory and the registration gone, and reports failure
\* when it did not manage to
C28_DeleteFallback ==
    [][\A c \in Callers :
          /\ (wcli[c] = WIdle /\ wcli'[c] = WIdle /\ wlast' # wlast
                  /\ wlast'.op = "delete" /\ wlast'.by = c) =>
                 /\ ~ wlast'.success
                 /\ ~ \E w \in wts : w.name = wlast'.name
                 /\ UNCHANGED gitVars
          /\ (wcli[c] = WIdle /\ wcli'[c].op = "delete") =>
                 /\ \E w \in wts : w.name = wcli'[c].name
                 /\ wcli'[c].stage = "remove"
          /\ (wcli[c].op = "delete" /\ wcli[c].stage = "remove"
                  /\ wcli'[c] # wcli[c]) =>
                 \/ /\ wcli'[c].stage = "prune"
                    /\ Gone(wts', wtDirs', wcli[c].name)
                 \/ /\ wcli'[c].stage = "rm"
                    /\ UNCHANGED gitVars
          /\ (Deletes(c) /\ wcli[c].stage = "rm") =>
                 /\ wlast'.op = "delete" /\ wlast'.name = wcli[c].name
                 /\ wlast'.success => /\ Gone(wts', wtDirs', wcli[c].name)
                                      /\ wlast'.manualCleanup
                 /\ ~ Gone(wts', wtDirs', wcli[c].name) => ~ wlast'.success]_vars

\* a deleteWorktree whose git worktree remove failed reported success
\* after the manual cleanup
C28_Witness ==
    /\ wlast.op = "delete"
    /\ wlast.success
    /\ wlast.manualCleanup
    /\ Gone(wts, wtDirs, wlast.name)
    /\ \A c \in Callers : wcli[c] = WIdle

\* the issue a ralph-* worktree is named after has its result still to be
\* captured: a worker dispatched for it has not returned
AtWork(name) ==
    \E o \in Orchs : \E todo \in orch[o].running : WorktreeName(todo.issue) = name

\* C29: "cleanup" deletes a ralph-* worktree only when its Linear issue is
\* not In Progress, and never the worktree of an item a worker is still
\* at work on
C29_CleanupOnlyOrphans ==
    [][(wlast'.op = "cleanup" /\ wlast' # wlast) =>
          \A name \in wlast'.cleaned :
              /\ linear[name.issue] # "In Progress"
              /\ ~ AtWork(name)]_vars

\* "cleanup" deleted the worktree of an issue that is In Progress and
\* whose worker has not returned
C29_Witness ==
    /\ wlast.op = "cleanup"
    /\ \E name \in wlast.cleaned :
           /\ linear[name.issue] = "In Progress"
           /\ AtWork(name)
           /\ name \notin wtDirs

\* the worker of todo goes through its Phase 1 in this step
Validates(o, todo) ==
    /\ todo \in orch[o].running \ orch[o].started
    /\ \/ todo \in orch'[o].started
       \/ /\ todo \notin orch'[o].running
          /\ orch'[o].results[Len(orch'[o].results)].error = "aborted"

\* C30: a worker goes on to its workflows only when its issue is In
\* Progress at its Phase 1; when the issue is in another state the worker
\* does not start, returns at once and leaves the worktrees, the branches
\* and Linear as they are; and only a worker that passed Phase 1 returns a
\* result of its own
C30_ValidateFirst ==
    [][\A o \in Orchs : \A todo \in orch[o].running :
          /\ Validates(o, todo) =>
                 /\ todo \in orch'[o].started => linear[todo.issue] = "In Progress"
                 /\ linear[todo.issue] # "In Progress" =>
                        /\ todo \notin orch'[o].started
                        /\ todo \notin orch'[o].running
                        /\ orch'[o].results = Append(orch[o].results, Aborted(todo))
                        /\ UNCHANGED <<linear, notes, wts, wtDirs, branches, mainRef>>
          /\ (/\ todo \notin orch'[o].running
              /\ ~ orch'[o].results[Len(orch'[o].results)].timedOut
              /\ orch'[o].results[Len(orch'[o].results)].error = "none") =>
                 todo \in orch[o].started]_vars

\* one worker of a batch aborted at Phase 1 because its issue had left In
\* Progress, the other passed Phase 1 and is at work
C30_Witness ==
    \E o \in Orchs :
        /\ orch[o].pc = "collect"
        /\ orch[o].started # {}
        /\ \A t \in orch[o].started : linear[t.issue] = "In Progress"
        /\ Len(orch[o].results) > 0
        /\ LET r == orch[o].results[Len(orch[o].results)]
           IN  /\ r.error = "aborted"
               /\ linear[r.todo.issue] # "In Progress"
               /\ WorktreeName(r.todo.issue) \in wtDirs

\* the phases in the order the skills give them
PhaseOrder == <<"Plan", "Work", "Review", "Compound", "PR", "CI", "Merge">>

PhaseIndex(phase) == CHOOSE k \in 1..Len(PhaseOrder) : PhaseOrder[k] = phase

HasRun(phase) == \E k \in 1..Len(flow.ran) : flow.ran[k] = phase

\* C31: for the todo at hand, in the loop and in a worker, the phases that
\* ran ran in the order Plan, Work, Review, Compound, PR, CI, Merge; a PR
\* is there only after Work, after Review unless --skip-review and after
\* Compound unless --skip-compound; and a PR is merged only when the CI
\* wait before the merge ended with the checks passed
C31_PhaseOrder ==
    /\ [](flow.pc # "none" =>
              /\ \A j, k \in 1..Len(flow.ran) :
                     j < k => PhaseIndex(flow.ran[j]) < PhaseIndex(flow.ran[k])
              /\ flow.pr # "none" =>
                     /\ HasRun("Work") /\ HasRun("PR")
                     /\ flow.skipReview \/ HasRun("Review")
                     /\ flow.skipCompound \/ HasRun("Compound")
              /\ flow.pr = "merged" =>
                     /\ HasRun("CI") /\ flow.ci = "passed" /\ ~ flow.noMerge)
    /\ [][(flow.pc # "none" /\ flow'.pr = "merged" /\ flow.pr # "merged") =>
              /\ flow.pc = "merge"
              /\ flow.ci = "passed"]_vars

\* a PR was merged after Plan, Work, Review and Compound, once a failed CI
\* run had been fixed
C31_Witness ==
    /\ flow.pc # "none"
    /\ flow.pr = "merged"
    /\ flow.fixes > 0
    /\ flow.ran = PhaseOrder

\* the issues run o has claimed so far: those of the batch being claimed
\* and those that went on to 4b
ClaimedSoFar(o) ==
    orch[o].provisioned \cup {orch[o].claimed[k].issue : k \in 1..Len(orch[o].claimed)}

\* C32: a parallel run started with --max-todos M claims at most M todos
\* and dispatches at most M workers, whatever its number of workers, and
\* a sequential loop started with --max-iterations M picks and marks In
\* Progress at most M todos
C32_MaxRespected ==
    /\ [](\A o \in Orchs :
              orch[o].maxTodos # Unlimited =>
                  /\ Cardinality(ClaimedSoFar(o)) <= orch[o].maxTodos
                  /\ Cardinality(orch[o].dispatched) <= orch[o].maxTodos
                  /\ Cardinality(orch[o].running) <= orch[o].maxTodos)
    /\ []((flow.pc # "none" /\ flow.mode = "sequential" /\ flow.max # 0) =>
              /\ flow.iterations <= flow.max
              /\ flow.claimed <= flow.max)

\* a run with two workers and --max-todos 1 stopped after one todo while
\* the other todo is still pending and its issue still Todo
C32_Witness ==
    \E o \in Orchs :
        /\ orch[o].pc = "stopped"
        /\ orch[o].maxTodos = 1
        /\ orch[o].workers > orch[o].maxTodos
        /\ Cardinality(orch[o].dispatched) = 1
        /\ \E i \in Issues \ ClaimedSoFar(o) : linear[i] = "Todo"

\* a loop with --max-iterations 1 stopped with a todo still pending
C32_LoopStopped ==
    /\ flow.pc = "stopped"
    /\ flow.max = 1
    /\ flow.claimed = 1
    /\ flow.pending > 0

\* run o writes Done, Blocked or Todo to issue i in this step
Releases(o, i) ==
    /\ orch'[o] # orch[o]
    /\ linear'[i] # linear[i]
    /\ linear'[i] \in {"Done", "Blocked", "Todo"}

\* a worker of another run than o is at work on issue i
OthersAtWork(o, i) ==
    \E p \in Orchs \ {o} : \E t \in orch[p].running : t.issue = i

\* C33: a run writes Done, Blocked or Todo to an issue only when it is the
\* one run that claimed the issue, and a run whose createWorktree failed
\* does not set back to Todo an issue a worker of another run is at work on
C33_OnlyClaimantReleases ==
    [][\A o \in Orchs, i \in Issues :
          Releases(o, i) =>
              /\ i \in orch[o].holding
              /\ Claimants(i) = {o}
              /\ ~ OthersAtWork(o, i)]_vars

\* the part that holds: a run writes Done, Blocked or Todo only to an
\* issue its own 4a set to In Progress
C33_OwnClaimReleases ==
    [][\A o \in Orchs, i \in Issues :
          Releases(o, i) => i \in orch[o].holding]_vars

\* a run whose createWorktree failed on the worktree of the other run has
\* set the issue back to Todo while the worker of the other run is at work
C33_Witness ==
    \E o \in Orchs, i \in Issues :
        /\ orch[o].pc = "provision"
        /\ i \in orch[o].provisioned \ orch[o].holding
        /\ linear[i] = "Todo"
        /\ OthersAtWork(o, i)
        /\ \E w \in wts : w.name = WorktreeName(i) /\ w.by # o

\* the issues workers are at work on for run o
AtWorkFor(o) == {t.issue : t \in orch[o].running}

\* C34: every worker a run dispatches gets a todo whose issue the run
\* itself set to In Progress and still holds, and the worktree the run
\* itself created for it in this batch; and no two workers that run at the
\* same time have the same issue, which is to say the same worktree path
C34_DispatchOwnClaim ==
    /\ [][\A o \in Orchs :
              Dispatches(o) =>
                  \A t \in orch'[o].running :
                      /\ t.issue \in orch[o].holding
                      /\ t.issue \in orch[o].provisioned
                      /\ WorktreeName(t.issue) \in wtDirs
                      /\ \E w \in wts : /\ w.name = WorktreeName(t.issue)
                                        /\ w.by = o]_vars
    /\ [](\A o \in Orchs :
              /\ \A t, u \in orch[o].running : t.issue = u.issue => t = u
              /\ \A p \in Orchs \ {o} : AtWorkFor(o) \cap AtWorkFor(p) = {})

\* both runs have a worker at work, each in the worktree its run created
C34_Witness ==
    /\ \A o \in Orchs : orch[o].running # {}
    /\ \A o \in Orchs : \A t \in orch[o].running :
           \E w \in wts : w.name = WorktreeName(t.issue) /\ w.by = o

\* no completeTodo, blockTodo or createTodo is between two of its calls
AllIdle == \A p \in Procs : cli[p] = Idle

\* C35: when the completeTodo and blockTodo calls of the two processes have
\* ended, however they interleaved, every todo number has exactly one file
\* and the status in that file's front matter is the status in its name
C35_OneFileAfterRace ==
    AllIdle =>
        \A f \in DOMAIN dir :
            /\ \A g \in DOMAIN dir : g.number = f.number => g = f
            /\ dir[f].status = f.status

\* a complete and a block of one todo raced: the rename of the later one
\* found the old name gone
C35_Witness ==
    /\ AllIdle
    /\ last.op \in {"complete", "block"}
    /\ ~ last.success
    /\ \E f \in DOMAIN dir : f.status \in {"completed", "blocked"}

\* C36: createTodo never gives a number that an earlier todo had, not even
\* after the todo with the highest number was deleted: the createTodo that
\* follows a deleteTodo is not given the number of the deleted todo, so the
\* dependency ids written for that todo never come to name another one
C36_NumbersNeverReused ==
    [][\A p \in Procs :
          (/\ last.op = "delete"
           /\ cli[p] = Idle
           /\ cli'[p].op = "create") =>
              cli'[p].number # last.deleted.number]_vars

\* a todo below the highest number was deleted, and a pending todo depends
\* on the deleted number: the next number is a new one
C36_Witness ==
    /\ last.op = "delete"
    /\ ParseInt(last.deleted.number) < MaxExisting
    /\ getNextNumber(dir) # last.deleted.number
    /\ \E f \in DOMAIN dir : last.deleted.number \in dir[f].deps

\* C37: two createTodo calls that both ran getNextNumber before either
\* wrote make two files with two numbers: the writeFile of a createTodo
\* never lands on a file that is there, and no file that is there carries
\* the number of the new one
C37_InterleavedCreates ==
    [][\A p \in Procs :
          (cli[p].op = "create" /\ cli'[p] = Idle) =>
              /\ last'.filename \notin DOMAIN dir
              /\ \A f \in DOMAIN dir : f.number # cli[p].number]_vars

\* both processes are past getNextNumber and neither has written its file
C37_Witness ==
    /\ \A p \in Procs : cli[p].op = "create"
    /\ \A p, q \in Procs : cli[p].number = cli[q].number

\* todo b was merged and cleaned up by 4e: its issue is Done and its file
\* is gone
CleanedUp(b) ==
    /\ b \notin DOMAIN dir
    /\ linear[IssueOf(ParseInt(b.number))] = "Done"

\* C38: once 4e has cleaned up a merged todo b (issue Done, file deleted),
\* every pending todo whose only dependency is b passes the dependency test
\* of getNextTodo
C38_DependentsEligible ==
    \A b \in DOMAIN DependentDir({}) :
        CleanedUp(b) =>
            \A f \in DOMAIN dir, order \in ReadDirOrders(dir) :
                (/\ dir[f].status = "pending"
                 /\ dir[f].deps = {DependentDir({})[b].issue_id}) =>
                    unmetDeps(TodoOf(dir, f), completedIds(dir, order)) = {}

\* todo 001 was merged and cleaned up, todo 002 is pending and depends on
\* it alone, and "next" was run
C38_Witness ==
    /\ \E b \in DOMAIN DependentDir({}) : b.number = Id(1) /\ CleanedUp(b)
    /\ \E f \in DOMAIN dir : dir[f].status = "pending" /\ dir[f].deps = {Id(1)}
    /\ last.op = "next"

\* another run has reported the issue as failed: 4e reverted it to Todo and
\* kept its worktree
FailedBefore(o, issue) ==
    \E p \in Orchs \ {o} : [issue |-> issue, status |-> "failed"] \in orch[p].report

\* C39: a todo that failed in an earlier run can be processed again: when a
\* later run has claimed it, 4b's createWorktree for it succeeds whenever
\* its install step does, and a run that created the worktree dispatches a
\* worker for the todo
C39_FailedItemRetried ==
    [][\A o \in Orchs :
          /\ (/\ Provisions(o)
               /\ FailedBefore(o, Head(orch[o].claimed).issue)) =>
                  LET todo == Head(orch[o].claimed)
                  IN  \A fetched \in BOOLEAN :
                          createWorktree(GitState, WorktreeName(todo.issue),
                                         FeatureBranch(todo.filename.slug), o,
                                         fetched, TRUE).success
          /\ Dispatches(o) =>
                  \A t \in orch[o].ready : FailedBefore(o, t.issue) =>
                      t \in orch'[o].running]_vars

\* a run holds the claim of an issue that another run reported as failed,
\* and is about to create the worktree for it
C39_Witness ==
    \E o \in Orchs :
        /\ orch[o].pc = "provision"
        /\ orch[o].claimed # <<>>
        /\ FailedBefore(o, Head(orch[o].claimed).issue)
        /\ linear[Head(orch[o].claimed).issue] = "In Progress"
        /\ WorktreeName(Head(orch[o].claimed).issue) \in wtDirs

\* the issues run o claimed whose worker returned completed and not merged
OpenPRs(o) == {i \in Issues : [issue |-> i, status |-> "open"] \in orch[o].report}

\* the issues no run but o has claimed
OnlyClaimedBy(o) ==
    {i \in Issues : \A p \in Orchs \ {o} :
                       i \notin orch[p].provisioned \cup orch[p].holding}

C10_OneWorktreePerName ==
    /\ [](\A w1, w2 \in wts : w1.name = w2.name => w1 = w2)
    /\ [][\A c \in Callers :
              /\ ReturnsAtCheck(c) => UNCHANGED <<wts, wtDirs, branches>>
              /\ Adds(c) => \A w \in wts : w.name = wcli[c].name =>
                                /\ w \in wts'
                                /\ \A v \in wts' : v.name = w.name => v = w
                                /\ (w.name \in wtDirs <=> w.name \in wtDirs')
                                /\ w.branch \in branches']_vars

\* a createWorktree was refused on a name another caller had registered
C10_Witness ==
    /\ wlast.op = "create"
    /\ ~ wlast.success
    /\ \E w \in wts : w.name = wlast.name /\ w.by # wlast.by /\ w.name \in wtDirs

====
